---- MODULE Spec2Model ----
(***************************************************************************)
(* Model of the UCP demo merchant server: the checkout session lifecycle   *)
(* of src/src/checkout.ts over the in-memory stores of src/src/data.ts.    *)
(*                                                                         *)
(* A request handler runs on the single-threaded event loop.  It is cut    *)
(* into steps at its `await` points (where other handlers may run) and at  *)
(* its saveCheckout() calls (where the store is written).  The steps of a  *)
(* synchronous stretch are chained through `running`, which lets no other  *)
(* handler in between.                                                     *)
(***************************************************************************)
EXTENDS Integers, Sequences, FiniteSets, TLC

\* ------------------------------------------------------------------------
\* Bounds of the model
\* ------------------------------------------------------------------------
MaxSessions == 1      \* sessions ever created
MaxClock == 7         \* last hour the clock reaches
MaxMessages == 2      \* longest message list a lazy-expiry Get still extends
MaxOrders == 2        \* orders ever created when completions can repeat
MaxRequests == 2      \* longest list handed to resolveLineItems alone
MaxInFlight == 2      \* handlers suspended at `await c.req.json()` at once
MaxQuantity == 2      \* largest quantity, of either sign, a caller supplies
MaxTotalPrice == 5100 \* highest total_price handed to calculateTotals alone

\* JavaScript's undefined, for optional strings
Undefined == "undefined"

\* Optional values of structured type: None, or Some(v)
None == <<>>
Some(v) == <<v>>
IsSome(o) == o # <<>>
TheValue(o) == o[1]

\* ------------------------------------------------------------------------
\* Program constants (checkout.ts)
\* ------------------------------------------------------------------------
CHECKOUT_TTL_HOURS == 6
FreeShippingThreshold == 5000
FlatShippingFee == 599
FailToken == "fail_token"

\* ------------------------------------------------------------------------
\* Catalog (data.ts)
\* ------------------------------------------------------------------------
products ==
  [ p \in {"rose-bouquet", "tulip-arrangement", "orchid-plant",
           "sunflower-bunch", "mixed-wildflowers"} |->
      CASE p = "rose-bouquet" ->
             [id |-> p, name |-> "Classic Rose Bouquet", price |-> 4999,
              currency |-> "USD", in_stock |-> TRUE]
        [] p = "tulip-arrangement" ->
             [id |-> p, name |-> "Spring Tulip Arrangement", price |-> 3499,
              currency |-> "USD", in_stock |-> TRUE]
        [] p = "orchid-plant" ->
             [id |-> p, name |-> "Phalaenopsis Orchid", price |-> 5999,
              currency |-> "USD", in_stock |-> TRUE]
        [] p = "sunflower-bunch" ->
             [id |-> p, name |-> "Sunflower Bunch", price |-> 2499,
              currency |-> "USD", in_stock |-> TRUE]
        [] p = "mixed-wildflowers" ->
             [id |-> p, name |-> "Mixed Wildflower Bouquet", price |-> 2999,
              currency |-> "USD", in_stock |-> FALSE] ]

\* getProduct(id): None when the catalog has no such product
getProduct(id) == IF id \in DOMAIN products THEN Some(products[id]) ELSE None

\* ------------------------------------------------------------------------
\* Helper functions (checkout.ts)
\* ------------------------------------------------------------------------

\* One request of resolveLineItems' loop: the item it pushes, or the error.
\* The item's uuid and the product's description and image_url are carried
\* along by the code and never read; they are left out of the item.
\* Mutant: the currency is compared before the stock is looked at
ResolveOneCurrencyFirst(req, currency) ==
  LET product == getProduct(req.item_id) IN
  IF ~IsSome(product)
    THEN [ok |-> FALSE, error |-> "Product not found: " \o req.item_id]
  ELSE IF TheValue(product).currency # currency
    THEN [ok |-> FALSE,
          error |-> "Currency mismatch for " \o TheValue(product).name
                    \o ": expected " \o currency
                    \o ", got " \o TheValue(product).currency]
  ELSE IF ~TheValue(product).in_stock
    THEN [ok |-> FALSE,
          error |-> "Product out of stock: " \o TheValue(product).name]
  ELSE [ok |-> TRUE,
        item |-> [item_id |-> TheValue(product).id,
                  quantity |-> req.quantity,
                  unit_price |-> TheValue(product).price,
                  total_price |-> TheValue(product).price * req.quantity]]

\* Mutant: the currency is not compared
ResolveOneIgnoresCurrency(req, currency) ==
  LET product == getProduct(req.item_id) IN
  IF ~IsSome(product)
    THEN [ok |-> FALSE, error |-> "Product not found: " \o req.item_id]
  ELSE IF ~TheValue(product).in_stock
    THEN [ok |-> FALSE,
          error |-> "Product out of stock: " \o TheValue(product).name]
  ELSE [ok |-> TRUE,
        item |-> [item_id |-> TheValue(product).id,
                  quantity |-> req.quantity,
                  unit_price |-> TheValue(product).price,
                  total_price |-> TheValue(product).price * req.quantity]]

ResolveOne(req, currency) ==
  LET product == getProduct(req.item_id) IN
  IF ~IsSome(product)
    THEN [ok |-> FALSE, error |-> "Product not found: " \o req.item_id]
  ELSE IF ~TheValue(product).in_stock
    THEN [ok |-> FALSE,
          error |-> "Product out of stock: " \o TheValue(product).name]
  ELSE IF TheValue(product).currency # currency
    THEN [ok |-> FALSE,
          error |-> "Currency mismatch for " \o TheValue(product).name
                    \o ": expected " \o currency
                    \o ", got " \o TheValue(product).currency]
  ELSE [ok |-> TRUE,
        item |-> [item_id |-> TheValue(product).id,
                  quantity |-> req.quantity,
                  unit_price |-> TheValue(product).price,
                  total_price |-> TheValue(product).price * req.quantity]]

RECURSIVE resolveItems(_, _)
resolveItems(requests, currency) ==
  IF requests = <<>> THEN <<>>
  ELSE LET r == ResolveOne(Head(requests), currency) IN
       (IF r.ok THEN <<r.item>> ELSE <<>>)
         \o resolveItems(Tail(requests), currency)

RECURSIVE resolveErrors(_, _)
resolveErrors(requests, currency) ==
  IF requests = <<>> THEN <<>>
  ELSE LET r == ResolveOne(Head(requests), currency) IN
       (IF r.ok THEN <<>> ELSE <<r.error>>)
         \o resolveErrors(Tail(requests), currency)

resolveLineItems(requests, currency) ==
  [items |-> resolveItems(requests, currency),
   errors |-> resolveErrors(requests, currency)]

RECURSIVE SumTotalPrice(_)
SumTotalPrice(lineItems) ==
  IF lineItems = <<>> THEN 0
  ELSE Head(lineItems).total_price + SumTotalPrice(Tail(lineItems))

\* the largest power of two that is at most k, for k >= 1
RECURSIVE PowerOfTwoBelow(_, _)
PowerOfTwoBelow(k, p) == IF 2 * p <= k THEN PowerOfTwoBelow(k, 2 * p) ELSE p

\* Math.round(subtotal * TAX_RATE), computed as the engine computes it, in
\* IEEE 754 doubles. The double nearest to 0.0875 is 7/80 - 1/(5 * 2^55),
\* so the exact product lies subtotal/(5 * 2^55) below subtotal * 7/80.
\* Where subtotal * 7/80 is no half-integer it is at least 1/80 away from
\* one, and the product rounds like the exact value: to
\* floor(subtotal * 0.0875 + 1/2). Where it is a half-integer k + 1/2 with
\* 2^n <= k < 2^(n+1), doubles are 2^(n-52) apart there, and the product is
\* stored as k + 1/2 only when the shortfall is at most half of that, that
\* is when subtotal <= 20 * 2^n (equality, at subtotal 40 only, is a tie
\* that goes to k + 1/2); otherwise it is stored as the double below
\* k + 1/2, and Math.round answers k. For a negative subtotal the product
\* lies above the exact value and Math.round rounds halves up, so both
\* answer alike.
RoundTax(subtotal) ==
  LET k == (subtotal * 875) \div 10000
      half == (subtotal * 875) % 10000 = 5000
  IN IF half /\ k >= 1 /\ subtotal > 20 * PowerOfTwoBelow(k, 1)
       THEN k
       ELSE (subtotal * 875 + 5000) \div 10000

\* Mutant: the tax is left out of the total
calculateTotalsWithoutTax(lineItems) ==
  LET subtotal == SumTotalPrice(lineItems)
      tax == RoundTax(subtotal)
      shipping == IF subtotal >= FreeShippingThreshold THEN 0
                  ELSE FlatShippingFee
      discount == 0
  IN [subtotal |-> subtotal, tax |-> tax, shipping |-> shipping,
      discount |-> discount,
      total |-> subtotal + shipping - discount]

\* Mutant: shipping is free above the threshold only
calculateTotalsAboveThreshold(lineItems) ==
  LET subtotal == SumTotalPrice(lineItems)
      tax == RoundTax(subtotal)
      shipping == IF subtotal > FreeShippingThreshold THEN 0
                  ELSE FlatShippingFee
      discount == 0
  IN [subtotal |-> subtotal, tax |-> tax, shipping |-> shipping,
      discount |-> discount,
      total |-> subtotal + tax + shipping - discount]

calculateTotals(lineItems) ==
  LET subtotal == SumTotalPrice(lineItems)
      tax == RoundTax(subtotal)
      shipping == IF subtotal >= FreeShippingThreshold THEN 0
                  ELSE FlatShippingFee
      discount == 0
  IN [subtotal |-> subtotal, tax |-> tax, shipping |-> shipping,
      discount |-> discount,
      total |-> subtotal + tax + shipping - discount]

\* Mutant: items alone make a session ready
determineStatusIgnoresPayment(checkout) ==
  IF Len(checkout.line_items) > 0 THEN "ready_for_complete" ELSE "incomplete"

determineStatus(checkout) ==
  LET hasItems == Len(checkout.line_items) > 0
      hasPayment == checkout.payment.selected_instrument_id # Undefined
  IN IF ~hasItems THEN "incomplete"
     ELSE IF ~hasPayment THEN "incomplete"
     ELSE "ready_for_complete"

\* Mutant: the time to live is not added
getExpiresAtNoTTL(t) == t

getExpiresAt(t) == t + CHECKOUT_TTL_HOURS

\* Mutant: the errors are folded into one message, the first one
ItemErrorMessagesFirstOnly(errors) ==
  IF errors = <<>> THEN <<>>
  ELSE << [type |-> "error", code |-> "ITEM_ERROR", message |-> errors[1]] >>

ItemErrorMessages(errors) ==
  [i \in 1..Len(errors) |->
     [type |-> "error", code |-> "ITEM_ERROR", message |-> errors[i]]]

DefaultInstruments == <<"mock-instrument-1">>


\* ------------------------------------------------------------------------
\* Request inputs
\* ------------------------------------------------------------------------
LineItemRequest(id, q) == [item_id |-> id, quantity |-> q]

NoPayment == [selected_instrument_id |-> Undefined, instruments |-> None]
SelectMock == [selected_instrument_id |-> "mock-instrument-1",
               instruments |-> None]

RoseOnce == << LineItemRequest("rose-bouquet", 1) >>
TulipTwice == << LineItemRequest("tulip-arrangement", 2) >>

CreateBody(line_items, currency, payment, buyer) ==
  [line_items |-> line_items, currency |-> currency,
   payment |-> payment, buyer |-> buyer]

\* bodies of POST /checkout-sessions: three that fail validation, one that
\* gives an incomplete session, one that gives a session born ready
CreateBodies ==
  { CreateBody(None, "USD", None, Undefined),
    CreateBody(Some(<<>>), "USD", None, Undefined),
    CreateBody(Some(RoseOnce), "", None, Undefined),
    CreateBody(Some(RoseOnce), "USD", None, "buyer@example.com"),
    CreateBody(Some(TulipTwice), "USD", Some(SelectMock),
               "buyer@example.com") }

UpdateBody(line_items, payment, buyer) ==
  [line_items |-> line_items, payment |-> payment, buyer |-> buyer]

\* bodies of PUT /checkout-sessions/:id: the empty body, and bodies that
\* supply one field group each
UpdateBodies ==
  { UpdateBody(None, None, Undefined),
    UpdateBody(Some(<<>>), None, Undefined),
    UpdateBody(Some(RoseOnce), None, Undefined),
    UpdateBody(Some(TulipTwice), None, Undefined),
    UpdateBody(None, Some(SelectMock), Undefined),
    UpdateBody(None, Some(NoPayment), Undefined),
    UpdateBody(None, None, "buyer@example.com") }

\* body.payment_data of Complete: absent, or handler_id and token optional
PaymentDatas ==
  { None,
    Some([handler_id |-> Undefined, token |-> "success_token"]),
    Some([handler_id |-> "mock-payment-handler", token |-> Undefined]),
    Some([handler_id |-> "mock-payment-handler", token |-> "success_token"]),
    Some([handler_id |-> "mock-payment-handler", token |-> FailToken]) }

\* Wider request bodies, for the steps of Create and Update taken alone:
\* lists whose requests resolve in part or not at all, a second currency,
\* and payments that supply instruments of their own.
CardInstruments == <<"card-instrument-1", "card-instrument-2">>
InstrumentsOnly == [selected_instrument_id |-> Undefined,
                    instruments |-> Some(CardInstruments)]
SelectCard == [selected_instrument_id |-> "card-instrument-1",
               instruments |-> Some(CardInstruments)]

RoseTwice == << LineItemRequest("rose-bouquet", 2) >>
RoseAndUnknown == << LineItemRequest("rose-bouquet", 1),
                     LineItemRequest("unknown-flower", 1) >>
WildflowersOnly == << LineItemRequest("mixed-wildflowers", 1) >>
UnknownTulipWildflowers == << LineItemRequest("unknown-flower", 1),
                              LineItemRequest("tulip-arrangement", 2),
                              LineItemRequest("mixed-wildflowers", 1) >>

CreateBodiesWide ==
  { CreateBody(Some(RoseTwice), "USD", None, Undefined),
    CreateBody(Some(RoseAndUnknown), "USD", None, Undefined),
    CreateBody(Some(UnknownTulipWildflowers), "USD", Some(SelectMock),
               Undefined),
    CreateBody(Some(WildflowersOnly), "USD", Some(SelectMock), Undefined),
    CreateBody(Some(RoseOnce), "EUR", None, Undefined),
    CreateBody(Some(TulipTwice), "USD", Some(SelectCard),
               "buyer@example.com") }

UpdateBodiesWide ==
  { UpdateBody(None, None, Undefined),
    UpdateBody(Some(<<>>), None, Undefined),
    UpdateBody(Some(WildflowersOnly), None, Undefined),
    UpdateBody(Some(RoseAndUnknown), None, Undefined),
    UpdateBody(Some(TulipTwice), None, Undefined),
    UpdateBody(None, Some(SelectMock), Undefined),
    UpdateBody(None, Some(InstrumentsOnly), Undefined),
    UpdateBody(None, Some(NoPayment), Undefined),
    UpdateBody(None, None, "other@example.com") }

\* body.payment_data of a Complete whose payment the mock handler declines
DeclinedPayments ==
  { Some([handler_id |-> "mock-payment-handler", token |-> FailToken]) }

\* hours by which the clock advances between two steps
TickHours == {CHECKOUT_TTL_HOURS + 1}

\* session ids a request may name; one not created yet is not in the store
RequestIds == 1..MaxSessions

\* ------------------------------------------------------------------------
\* State
\* ------------------------------------------------------------------------
VARIABLES
  checkoutSessions,  \* data.ts checkoutSessions: session id |-> session
  orders,            \* data.ts orders: order number |-> Order
  now,               \* the wall clock, in hours
  inflight,          \* handlers suspended at `await c.req.json()`
  running,           \* the handler between two saveCheckout calls, or None
  resp,              \* the response sent last
  workerSessions,    \* worker/src/index.js checkoutSessions
  workerOrders,      \* worker/src/index.js orders
  workerInflight,    \* worker handlers suspended at `await request.json()`
  workerResp,        \* the response the worker sent last
  resolverCall,      \* a call of resolveLineItems: arguments and result
  totalsCall         \* a call of calculateTotals: argument and result

vars == <<checkoutSessions, orders, now, inflight, running, resp,
          workerSessions, workerOrders, workerInflight, workerResp,
          resolverCall, totalsCall>>

\* the helper functions called on their own, outside any handler
helperVars == <<resolverCall, totalsCall>>

\* the state of the edge-function worker, a deployment of its own
workerVars == <<workerSessions, workerOrders, workerInflight, workerResp>>

NoOrder == [id |-> 0, created_at |-> 0]

NoResponse ==
  [op |-> "none", sid |-> 0, code |-> 0, error |-> "", checkout |-> None]

Response(op, sid, code, error, checkout) ==
  [op |-> op, sid |-> sid, code |-> code, error |-> error,
   checkout |-> checkout]

getCheckout(id) ==
  IF id \in DOMAIN checkoutSessions THEN Some(checkoutSessions[id]) ELSE None

\* Mutant: saving a canceled session removes it from the store
saveCheckoutDropsCanceled(checkout) ==
  IF checkout.status = "canceled"
    THEN SelectSeq(checkoutSessions, LAMBDA c : c.id # checkout.id)
  ELSE IF checkout.id \in DOMAIN checkoutSessions
    THEN [checkoutSessions EXCEPT ![checkout.id] = checkout]
    ELSE Append(checkoutSessions, checkout)

\* the store after saveCheckout(checkout)
saveCheckout(checkout) ==
  IF checkout.id \in DOMAIN checkoutSessions
    THEN [checkoutSessions EXCEPT ![checkout.id] = checkout]
    ELSE Append(checkoutSessions, checkout)

\* Mutant: a new order takes the place of the first one stored
saveOrderOverFirst(order) ==
  IF orders # <<>>
    THEN [orders EXCEPT ![1] = order]
    ELSE Append(orders, order)

\* the store after saveOrder(order)
saveOrder(order) ==
  IF order.id \in DOMAIN orders
    THEN [orders EXCEPT ![order.id] = order]
    ELSE Append(orders, order)

Init ==
  /\ checkoutSessions = <<>>
  /\ orders = <<>>
  /\ now = 0
  /\ inflight = <<>>
  /\ running = None
  /\ resp = NoResponse
  /\ workerSessions = <<>>
  /\ workerOrders = <<>>
  /\ workerInflight = <<>>
  /\ workerResp = NoResponse
  /\ resolverCall = None
  /\ totalsCall = None

\* the event loop is free to start or resume a handler
Idle == running = None

\* ------------------------------------------------------------------------
\* POST /checkout-sessions
\* ------------------------------------------------------------------------
NewCheckout(body, id, t) ==
  LET r == resolveLineItems(TheValue(body.line_items), body.currency)
      checkout ==
        [id |-> id,
         status |-> "incomplete",
         line_items |-> r.items,
         currency |-> body.currency,
         totals |-> calculateTotals(r.items),
         payment |->
           [selected_instrument_id |->
              IF IsSome(body.payment)
                THEN TheValue(body.payment).selected_instrument_id
                ELSE Undefined,
            instruments |->
              IF IsSome(body.payment)
                 /\ IsSome(TheValue(body.payment).instruments)
                THEN TheValue(TheValue(body.payment).instruments)
                ELSE DefaultInstruments,
            status |-> "pending"],
         buyer |-> body.buyer,
         messages |-> ItemErrorMessages(r.errors),
         expires_at |-> getExpiresAt(t),
         order |-> NoOrder]
  IN [checkout EXCEPT !.status = determineStatus(checkout)]

Create(body) ==
  /\ Idle
  /\ IF ~IsSome(body.line_items) \/ Len(TheValue(body.line_items)) = 0
       THEN /\ resp' = Response("create", 0, 400,
                         "line_items is required and cannot be empty", None)
            /\ UNCHANGED <<checkoutSessions, orders, now, inflight, running>>
     ELSE IF body.currency = ""
       THEN /\ resp' = Response("create", 0, 400,
                                "currency is required", None)
            /\ UNCHANGED <<checkoutSessions, orders, now, inflight, running>>
     ELSE /\ Len(checkoutSessions) < MaxSessions
          /\ LET checkout ==
                   NewCheckout(body, Len(checkoutSessions) + 1, now)
             IN /\ checkoutSessions' = saveCheckout(checkout)
                /\ resp' = Response("create", checkout.id, 201, "",
                                    Some(checkout))
          /\ UNCHANGED <<orders, now, inflight, running>>

\* ------------------------------------------------------------------------
\* GET /checkout-sessions/:id
\* ------------------------------------------------------------------------
ExpiredMessage ==
  [type |-> "error", code |-> "EXPIRED",
   message |-> "Checkout session has expired"]

\* new Date(checkout.expires_at) < new Date()
IsExpired(checkout, t) == checkout.expires_at < t

\* the session object after the lazy expiry
ExpiredCheckout(checkout) ==
  [checkout EXCEPT !.status = "canceled",
                   !.messages = Append(@, ExpiredMessage)]

Get(id) ==
  /\ Idle
  /\ LET found == getCheckout(id) IN
     IF ~IsSome(found)
       THEN /\ resp' = Response("get", id, 404,
                                "Checkout session not found", None)
            /\ UNCHANGED <<checkoutSessions, orders, now, inflight, running>>
     ELSE LET checkout == TheValue(found) IN
       IF IsExpired(checkout, now)
         THEN /\ Len(checkout.messages) < MaxMessages
              /\ LET expired == ExpiredCheckout(checkout)
                 IN /\ checkoutSessions' = saveCheckout(expired)
                    /\ resp' = Response("get", id, 200, "", Some(expired))
              /\ UNCHANGED <<orders, now, inflight, running>>
         ELSE /\ resp' = Response("get", id, 200, "", Some(checkout))
              /\ UNCHANGED <<checkoutSessions, orders, now, inflight,
                             running>>

\* ------------------------------------------------------------------------
\* PUT /checkout-sessions/:id
\* ------------------------------------------------------------------------
Suspended(op, id) == [op |-> op, sid |-> id]

RemoveAt(seq, i) == SubSeq(seq, 1, i - 1) \o SubSeq(seq, i + 1, Len(seq))

\* Mutant: the guard rejects completed sessions only
UpdateStatusErrorCompletedOnly(status) ==
  IF status = "completed"
    THEN "Cannot update " \o status \o " checkout"
    ELSE ""

\* the terminal-status guard: the error it answers with, "" when it passes
UpdateStatusError(status) ==
  IF status = "completed" \/ status = "canceled"
    THEN "Cannot update " \o status \o " checkout"
    ELSE ""

\* up to `await c.req.json()`
UpdateBegin(id) ==
  /\ Idle
  /\ LET found == getCheckout(id) IN
     IF ~IsSome(found)
       THEN /\ resp' = Response("update", id, 404,
                                "Checkout session not found", None)
            /\ UNCHANGED <<checkoutSessions, orders, now, inflight, running>>
     ELSE IF UpdateStatusError(TheValue(found).status) # ""
       THEN /\ resp' = Response("update", id, 400,
                         UpdateStatusError(TheValue(found).status), None)
            /\ UNCHANGED <<checkoutSessions, orders, now, inflight, running>>
     ELSE /\ inflight' = Append(inflight, Suspended("update", id))
          /\ UNCHANGED <<checkoutSessions, orders, now, running, resp>>

\* the stored payment spread under the request's selection, and under the
\* request's instruments when it has any
\* Mutant: the selection is replaced only when the request supplies one
MergePaymentFieldLevel(payment, request) ==
  [payment EXCEPT
     !.selected_instrument_id =
        IF request.selected_instrument_id # Undefined
          THEN request.selected_instrument_id
          ELSE @,
     !.instruments =
        IF IsSome(request.instruments)
          THEN TheValue(request.instruments)
          ELSE @]

\* Mutant: the stored payment is not spread under the request's fields
MergePaymentResetsStatus(payment, request) ==
  [selected_instrument_id |-> request.selected_instrument_id,
   instruments |->
     IF IsSome(request.instruments)
       THEN TheValue(request.instruments)
       ELSE payment.instruments,
   status |-> "pending"]

MergePayment(payment, request) ==
  [payment EXCEPT
     !.selected_instrument_id = request.selected_instrument_id,
     !.instruments =
        IF IsSome(request.instruments)
          THEN TheValue(request.instruments)
          ELSE @]

\* Mutant: the totals are left as they were
ReplaceLineItemsKeepsTotals(checkout, r) ==
  [checkout EXCEPT
     !.line_items = r.items,
     !.messages = IF Len(r.errors) > 0
                    THEN ItemErrorMessages(r.errors)
                    ELSE @]

\* the session object after the resolution r of the body's line_items has
\* been written to it
ReplaceLineItems(checkout, r) ==
  [checkout EXCEPT
     !.line_items = r.items,
     !.totals = calculateTotals(r.items),
     !.messages = IF Len(r.errors) > 0
                    THEN ItemErrorMessages(r.errors)
                    ELSE @]

\* Mutant: a currency in the body takes the place of the session's
ResolutionCurrencyFromBody(checkout, body) ==
  IF "currency" \in DOMAIN body THEN body.currency ELSE checkout.currency

\* the currency an Update resolves the body's line_items against
ResolutionCurrency(checkout, body) == checkout.currency

\* the session object after the body has been applied to it
ApplyUpdate(checkout, body, t) ==
  LET r == IF IsSome(body.line_items)
             THEN resolveLineItems(TheValue(body.line_items),
                                   ResolutionCurrency(checkout, body))
             ELSE [items |-> <<>>, errors |-> <<>>]
      c1 == IF IsSome(body.line_items)
              THEN ReplaceLineItems(checkout, r)
              ELSE checkout
      c2 == IF IsSome(body.payment)
              THEN [c1 EXCEPT
                      !.payment = MergePayment(@, TheValue(body.payment))]
              ELSE c1
      c3 == IF body.buyer # Undefined
              THEN [c2 EXCEPT !.buyer = body.buyer]
              ELSE c2
  IN [c3 EXCEPT !.status = determineStatus(c3),
                !.expires_at = getExpiresAt(t)]

\* from `await c.req.json()` to the response
UpdateResume(i, body) ==
  /\ Idle
  /\ i \in DOMAIN inflight
  /\ inflight[i].op = "update"
  /\ LET checkout == ApplyUpdate(checkoutSessions[inflight[i].sid], body, now)
     IN /\ checkoutSessions' = saveCheckout(checkout)
        /\ resp' = Response("update", checkout.id, 200, "", Some(checkout))
  /\ inflight' = RemoveAt(inflight, i)
  /\ UNCHANGED <<orders, now, running>>

\* ------------------------------------------------------------------------
\* POST /checkout-sessions/:id/complete
\* ------------------------------------------------------------------------

\* Mutant: the guard forgets that a completed session is not ready
CompleteStatusErrorNoCompletedGuard(status) ==
  IF status = "canceled" THEN "Cannot complete canceled checkout"
  ELSE IF status # "ready_for_complete" /\ status # "completed"
    THEN "Checkout not ready for completion"
  ELSE ""

\* Mutant: the guard rejects terminal sessions only
CompleteStatusErrorTerminalOnly(status) ==
  IF status = "completed" THEN "Checkout already completed"
  ELSE IF status = "canceled" THEN "Cannot complete canceled checkout"
  ELSE ""

\* the status guards: the error they answer with, "" when they pass
CompleteStatusError(status) ==
  IF status = "completed" THEN "Checkout already completed"
  ELSE IF status = "canceled" THEN "Cannot complete canceled checkout"
  ELSE IF status # "ready_for_complete"
    THEN "Checkout not ready for completion"
  ELSE ""

\* the status guards, up to `await c.req.json()`
CompleteBegin(id) ==
  /\ Idle
  /\ LET found == getCheckout(id) IN
     IF ~IsSome(found)
       THEN /\ resp' = Response("complete", id, 404,
                                "Checkout session not found", None)
            /\ UNCHANGED <<checkoutSessions, orders, now, inflight, running>>
     ELSE IF CompleteStatusError(TheValue(found).status) # ""
       THEN /\ resp' = Response("complete", id, 400,
                         CompleteStatusError(TheValue(found).status), None)
            /\ UNCHANGED <<checkoutSessions, orders, now, inflight, running>>
     ELSE /\ inflight' = Append(inflight, Suspended("complete", id))
          /\ UNCHANGED <<checkoutSessions, orders, now, running, resp>>

\* Mutant: only the presence of payment_data is checked
HasHandlerIdPresenceOnly(payment_data) == IsSome(payment_data)

\* body.payment_data?.handler_id is truthy
HasHandlerId(payment_data) ==
  IsSome(payment_data) /\ TheValue(payment_data).handler_id # Undefined

\* Mutant: the in-progress status is never written
InProgressCheckoutSkipped(checkout) == checkout

\* the session object while the payment is being processed
InProgressCheckout(checkout) ==
  [checkout EXCEPT !.status = "complete_in_progress"]

\* from `await c.req.json()` to the first saveCheckout
CompleteResume(i, payment_data) ==
  /\ Idle
  /\ i \in DOMAIN inflight
  /\ inflight[i].op = "complete"
  /\ inflight' = RemoveAt(inflight, i)
  /\ IF ~HasHandlerId(payment_data)
       THEN /\ resp' = Response("complete", inflight[i].sid, 400,
                                "payment_data.handler_id is required", None)
            /\ UNCHANGED <<checkoutSessions, orders, now, running>>
       ELSE LET checkout ==
                  InProgressCheckout(checkoutSessions[inflight[i].sid])
            IN /\ checkoutSessions' = saveCheckout(checkout)
               /\ running' = Some([sid |-> checkout.id,
                                   token |-> TheValue(payment_data).token])
               /\ UNCHANGED <<orders, now, resp>>

PaymentFailedMessage ==
  [type |-> "error", code |-> "PAYMENT_FAILED",
   message |-> "Payment was declined"]

\* Mutant: the order forgets the buyer
NewOrderWithoutBuyer(checkout, id, t) ==
  [id |-> id,
   checkout_id |-> checkout.id,
   status |-> "pending",
   line_items |-> checkout.line_items,
   totals |-> checkout.totals,
   buyer |-> Undefined,
   created_at |-> t,
   updated_at |-> t]

NewOrder(checkout, id, t) ==
  [id |-> id,
   checkout_id |-> checkout.id,
   status |-> "pending",
   line_items |-> checkout.line_items,
   totals |-> checkout.totals,
   buyer |-> checkout.buyer,
   created_at |-> t,
   updated_at |-> t]

\* Mutant: the status is not reverted after a declined payment
RevertedCheckoutKeepsInProgress(checkout) ==
  [checkout EXCEPT !.payment.status = "failed",
                   !.messages = <<PaymentFailedMessage>>]

\* the session object after a declined payment
RevertedCheckout(checkout) ==
  [checkout EXCEPT !.status = "ready_for_complete",
                   !.payment.status = "failed",
                   !.messages = <<PaymentFailedMessage>>]

\* the session object after the order has been placed
CompletedCheckout(checkout, order) ==
  [checkout EXCEPT !.status = "completed",
                   !.payment.status = "captured",
                   !.order = [id |-> order.id,
                              created_at |-> order.created_at]]

\* the simulated settlement, from the first saveCheckout to the response
CompleteSettle ==
  /\ IsSome(running)
  /\ LET checkout == checkoutSessions[TheValue(running).sid]
         token == TheValue(running).token
     IN IF token = FailToken
          THEN LET reverted == RevertedCheckout(checkout)
               IN /\ checkoutSessions' = saveCheckout(reverted)
                  /\ resp' = Response("complete", checkout.id, 400, "",
                                      Some(reverted))
                  /\ UNCHANGED orders
          ELSE LET order == NewOrder(checkout, Len(orders) + 1, now)
                   completed == CompletedCheckout(checkout, order)
               IN /\ orders' = saveOrder(order)
                  /\ checkoutSessions' = saveCheckout(completed)
                  /\ resp' = Response("complete", checkout.id, 200, "",
                                      Some(completed))
  /\ running' = None
  /\ UNCHANGED <<now, inflight>>

\* ------------------------------------------------------------------------
\* POST /checkout-sessions/:id/cancel
\* ------------------------------------------------------------------------
CanceledMessage ==
  [type |-> "info", code |-> "CANCELED", message |-> "Checkout was canceled"]

\* Mutant: a completed session passes the guard
CancelStatusErrorNone(status) == ""

CancelStatusError(status) ==
  IF status = "completed" THEN "Cannot cancel completed checkout" ELSE ""

\* Mutant: a canceled session is canceled again
AlreadyCanceledNever(status) == FALSE

AlreadyCanceled(status) == status = "canceled"

\* Mutant: the CANCELED message replaces the stored messages
CanceledCheckoutReplacesMessages(checkout) ==
  [checkout EXCEPT
     !.status = "canceled",
     !.messages = <<CanceledMessage>>]

CanceledCheckout(checkout) ==
  [checkout EXCEPT
     !.status = "canceled",
     !.messages = Append(@, CanceledMessage)]

Cancel(id) ==
  /\ Idle
  /\ LET found == getCheckout(id) IN
     IF ~IsSome(found)
       THEN /\ resp' = Response("cancel", id, 404,
                                "Checkout session not found", None)
            /\ UNCHANGED <<checkoutSessions, orders, now, inflight, running>>
     ELSE IF CancelStatusError(TheValue(found).status) # ""
       THEN /\ resp' = Response("cancel", id, 400,
                                CancelStatusError(TheValue(found).status),
                                None)
            /\ UNCHANGED <<checkoutSessions, orders, now, inflight, running>>
     ELSE IF AlreadyCanceled(TheValue(found).status)
       THEN /\ resp' = Response("cancel", id, 200, "", found)
            /\ UNCHANGED <<checkoutSessions, orders, now, inflight, running>>
     ELSE LET canceled == CanceledCheckout(TheValue(found))
          IN /\ checkoutSessions' = saveCheckout(canceled)
             /\ resp' = Response("cancel", id, 200, "", Some(canceled))
             /\ UNCHANGED <<orders, now, inflight, running>>

\* ------------------------------------------------------------------------
\* The clock
\* ------------------------------------------------------------------------
Tick(d) ==
  /\ Idle
  /\ now + d <= MaxClock
  /\ now' = now + d
  /\ UNCHANGED <<checkoutSessions, orders, inflight, running, resp>>

\* ------------------------------------------------------------------------
\* Requests served one at a time: a handler starts only when none is
\* suspended
\* ------------------------------------------------------------------------
Quiet == inflight = <<>>

Next ==
  \/ \E body \in CreateBodies :
       Quiet /\ Create(body) /\ UNCHANGED <<workerVars, helperVars>>
  \/ \E id \in RequestIds :
       Quiet /\ Get(id) /\ UNCHANGED <<workerVars, helperVars>>
  \/ \E id \in RequestIds :
       Quiet /\ UpdateBegin(id) /\ UNCHANGED <<workerVars, helperVars>>
  \/ \E i \in DOMAIN inflight, body \in UpdateBodies :
       UpdateResume(i, body) /\ UNCHANGED <<workerVars, helperVars>>
  \/ \E id \in RequestIds :
       Quiet /\ CompleteBegin(id) /\ UNCHANGED <<workerVars, helperVars>>
  \/ \E i \in DOMAIN inflight, pd \in PaymentDatas :
       CompleteResume(i, pd) /\ UNCHANGED <<workerVars, helperVars>>
  \/ CompleteSettle /\ UNCHANGED <<workerVars, helperVars>>
  \/ \E id \in RequestIds :
       Quiet /\ Cancel(id) /\ UNCHANGED <<workerVars, helperVars>>
  \/ \E d \in TickHours : Tick(d) /\ UNCHANGED <<workerVars, helperVars>>

Spec == Init /\ [][Next]_vars

\* Create and Update taken alone, one request at a time, over the wider
\* request bodies
NextPayloads ==
  \/ \E body \in CreateBodiesWide :
       Quiet /\ Create(body) /\ UNCHANGED <<workerVars, helperVars>>
  \/ \E id \in RequestIds :
       Quiet /\ UpdateBegin(id) /\ UNCHANGED <<workerVars, helperVars>>
  \/ \E i \in DOMAIN inflight, body \in UpdateBodiesWide :
       UpdateResume(i, body) /\ UNCHANGED <<workerVars, helperVars>>

SpecPayloads == Init /\ [][NextPayloads]_vars

\* two of the wider Create bodies, apart in every field group
CreateBodiesApart ==
  { CreateBody(Some(RoseOnce), "EUR", None, Undefined),
    CreateBody(Some(TulipTwice), "USD", Some(SelectCard),
               "buyer@example.com") }

\* Create over these two and Update over the wider bodies, with Completes
\* whose payment is declined in between, so that Update meets sessions
\* whose payment.status is failed
NextPayloadsDeclined ==
  \/ \E body \in CreateBodiesApart :
       Quiet /\ Create(body) /\ UNCHANGED <<workerVars, helperVars>>
  \/ \E id \in RequestIds :
       Quiet /\ UpdateBegin(id) /\ UNCHANGED <<workerVars, helperVars>>
  \/ \E i \in DOMAIN inflight, body \in UpdateBodiesWide :
       UpdateResume(i, body) /\ UNCHANGED <<workerVars, helperVars>>
  \/ \E id \in RequestIds :
       Quiet /\ CompleteBegin(id) /\ UNCHANGED <<workerVars, helperVars>>
  \/ \E i \in DOMAIN inflight, pd \in DeclinedPayments :
       CompleteResume(i, pd) /\ UNCHANGED <<workerVars, helperVars>>
  \/ CompleteSettle /\ UNCHANGED <<workerVars, helperVars>>

SpecPayloadsDeclined == Init /\ [][NextPayloadsDeclined]_vars

\* ------------------------------------------------------------------------
\* Requests interleaved: a handler may start while others are suspended at
\* their `await c.req.json()`. Nothing in the handlers takes a lock, and
\* each resumes with the session object it fetched before the await, which
\* is the stored object itself.
\* ------------------------------------------------------------------------
\* bodies of POST /checkout-sessions that pass validation: one session
\* born incomplete, one born ready
CreateBodiesValid ==
  { CreateBody(Some(RoseOnce), "USD", None, "buyer@example.com"),
    CreateBody(Some(TulipTwice), "USD", Some(SelectMock),
               "buyer@example.com") }

\* bodies of PUT: the empty body, new line items, a selected instrument
UpdateBodiesFew ==
  { UpdateBody(None, None, Undefined),
    UpdateBody(Some(RoseOnce), None, Undefined),
    UpdateBody(None, Some(SelectMock), Undefined) }

\* body.payment_data of a Complete that names its handler: captured or
\* declined
HandledPayments ==
  { Some([handler_id |-> "mock-payment-handler", token |-> "success_token"]),
    Some([handler_id |-> "mock-payment-handler", token |-> FailToken]) }

\* one session is created, and every later request names it
NextInterleaved ==
  \/ \E body \in CreateBodiesValid :
       /\ checkoutSessions = <<>>
       /\ Create(body)
       /\ UNCHANGED <<workerVars, helperVars>>
  \/ \E id \in DOMAIN checkoutSessions :
       /\ Len(inflight) < MaxInFlight
       /\ UpdateBegin(id)
       /\ UNCHANGED <<workerVars, helperVars>>
  \/ \E i \in DOMAIN inflight, body \in UpdateBodiesFew :
       UpdateResume(i, body) /\ UNCHANGED <<workerVars, helperVars>>
  \/ \E id \in DOMAIN checkoutSessions :
       /\ Len(inflight) < MaxInFlight
       /\ CompleteBegin(id)
       /\ UNCHANGED <<workerVars, helperVars>>
  \/ \E i \in DOMAIN inflight, pd \in HandledPayments :
       /\ Len(orders) < MaxOrders
       /\ CompleteResume(i, pd)
       /\ UNCHANGED <<workerVars, helperVars>>
  \/ CompleteSettle /\ UNCHANGED <<workerVars, helperVars>>
  \/ \E id \in DOMAIN checkoutSessions :
       /\ Len(checkoutSessions[id].messages) < MaxMessages
       /\ Cancel(id)
       /\ UNCHANGED <<workerVars, helperVars>>

SpecInterleaved == Init /\ [][NextInterleaved]_vars

\* Completes interleaved with one another only: an Update or a Cancel is
\* served alone, so whatever happens to a session after its completion is
\* the work of a Complete that was suspended meanwhile.
NoUpdateInFlight == \A k \in DOMAIN inflight : inflight[k].op # "update"

NextCompletesInterleaved ==
  \/ \E body \in CreateBodiesValid :
       /\ checkoutSessions = <<>>
       /\ Create(body)
       /\ UNCHANGED <<workerVars, helperVars>>
  \/ \E id \in DOMAIN checkoutSessions :
       Quiet /\ UpdateBegin(id) /\ UNCHANGED <<workerVars, helperVars>>
  \/ \E i \in DOMAIN inflight, body \in UpdateBodiesFew :
       UpdateResume(i, body) /\ UNCHANGED <<workerVars, helperVars>>
  \/ \E id \in DOMAIN checkoutSessions :
       /\ NoUpdateInFlight
       /\ Len(inflight) < MaxInFlight
       /\ CompleteBegin(id)
       /\ UNCHANGED <<workerVars, helperVars>>
  \/ \E i \in DOMAIN inflight, pd \in PaymentDatas :
       /\ Len(orders) < MaxOrders
       /\ CompleteResume(i, pd)
       /\ UNCHANGED <<workerVars, helperVars>>
  \/ CompleteSettle /\ UNCHANGED <<workerVars, helperVars>>
  \/ \E id \in DOMAIN checkoutSessions :
       Quiet /\ Cancel(id) /\ UNCHANGED <<workerVars, helperVars>>

SpecCompletesInterleaved == Init /\ [][NextCompletesInterleaved]_vars

\* ------------------------------------------------------------------------
\* Sessions in two currencies, and Update bodies that carry a currency of
\* their own next to the fields the handler reads
\* ------------------------------------------------------------------------
CreateBodiesTwoCurrencies ==
  { CreateBody(Some(RoseOnce), "EUR", Some(SelectMock), Undefined),
    CreateBody(Some(TulipTwice), "USD", Some(SelectMock),
               "buyer@example.com") }

UpdateBodyWithCurrency(line_items, payment, buyer, currency) ==
  [line_items |-> line_items, payment |-> payment, buyer |-> buyer,
   currency |-> currency]

UpdateBodiesWithCurrency ==
  { UpdateBodyWithCurrency(Some(RoseOnce), None, Undefined, "USD"),
    UpdateBodyWithCurrency(Some(RoseOnce), None, Undefined, "EUR"),
    UpdateBodyWithCurrency(None, Some(NoPayment), Undefined, "EUR"),
    UpdateBodyWithCurrency(None, None, "other@example.com", "USD") }

NextCurrencies ==
  \/ \E body \in CreateBodiesTwoCurrencies :
       Quiet /\ Create(body) /\ UNCHANGED <<workerVars, helperVars>>
  \/ \E id \in RequestIds :
       Quiet /\ Get(id) /\ UNCHANGED <<workerVars, helperVars>>
  \/ \E id \in RequestIds :
       Quiet /\ UpdateBegin(id) /\ UNCHANGED <<workerVars, helperVars>>
  \/ \E i \in DOMAIN inflight, body \in UpdateBodiesWithCurrency :
       UpdateResume(i, body) /\ UNCHANGED <<workerVars, helperVars>>
  \/ \E id \in RequestIds :
       Quiet /\ CompleteBegin(id) /\ UNCHANGED <<workerVars, helperVars>>
  \/ \E i \in DOMAIN inflight, pd \in HandledPayments :
       CompleteResume(i, pd) /\ UNCHANGED <<workerVars, helperVars>>
  \/ CompleteSettle /\ UNCHANGED <<workerVars, helperVars>>
  \/ \E id \in RequestIds :
       Quiet /\ Cancel(id) /\ UNCHANGED <<workerVars, helperVars>>
  \/ \E d \in TickHours : Tick(d) /\ UNCHANGED <<workerVars, helperVars>>

SpecCurrencies == Init /\ [][NextCurrencies]_vars

\* ------------------------------------------------------------------------
\* Quantities as callers supply them: the handlers read req.quantity as it
\* comes, so zero and negative integers are inputs too
\* ------------------------------------------------------------------------
Quantities == (0 - MaxQuantity)..MaxQuantity

CreateBodiesAnyQuantity ==
  { CreateBody(Some(<< LineItemRequest(id, q) >>), "USD", payment,
               "buyer@example.com") :
      id \in {"rose-bouquet", "tulip-arrangement"},
      q \in Quantities,
      payment \in {None, Some(SelectMock)} }

UpdateBodiesAnyQuantity ==
  { UpdateBody(Some(<< LineItemRequest("rose-bouquet", q) >>), None,
               Undefined) : q \in Quantities }

NextQuantities ==
  \/ \E body \in CreateBodiesAnyQuantity :
       Quiet /\ Create(body) /\ UNCHANGED <<workerVars, helperVars>>
  \/ \E id \in RequestIds :
       Quiet /\ UpdateBegin(id) /\ UNCHANGED <<workerVars, helperVars>>
  \/ \E i \in DOMAIN inflight, body \in UpdateBodiesAnyQuantity :
       UpdateResume(i, body) /\ UNCHANGED <<workerVars, helperVars>>
  \/ \E id \in RequestIds :
       Quiet /\ CompleteBegin(id) /\ UNCHANGED <<workerVars, helperVars>>
  \/ \E i \in DOMAIN inflight, pd \in HandledPayments :
       CompleteResume(i, pd) /\ UNCHANGED <<workerVars, helperVars>>
  \/ CompleteSettle /\ UNCHANGED <<workerVars, helperVars>>

SpecQuantities == Init /\ [][NextQuantities]_vars

\* ------------------------------------------------------------------------
\* resolveLineItems called on its own, over every list of at most
\* MaxRequests requests: a product in stock, a second one, an unknown one
\* and one out of stock, once or twice each, in either currency
\* ------------------------------------------------------------------------
ResolverRequests ==
  { LineItemRequest(id, q) :
      id \in {"rose-bouquet", "tulip-arrangement", "unknown-flower",
              "mixed-wildflowers"},
      q \in {1, 2} }

ResolverRequestLists ==
  UNION { [1..n -> ResolverRequests] : n \in 0..MaxRequests }

ResolverCurrencies == {"USD", "EUR"}

InitResolver ==
  /\ checkoutSessions = <<>>
  /\ orders = <<>>
  /\ now = 0
  /\ inflight = <<>>
  /\ running = None
  /\ resp = NoResponse
  /\ workerSessions = <<>>
  /\ workerOrders = <<>>
  /\ workerInflight = <<>>
  /\ workerResp = NoResponse
  /\ totalsCall = None
  /\ resolverCall \in
       { Some([requests |-> requests, currency |-> currency,
               result |-> None]) :
           requests \in ResolverRequestLists,
           currency \in ResolverCurrencies }

CallResolveLineItems ==
  /\ IsSome(resolverCall)
  /\ ~IsSome(TheValue(resolverCall).result)
  /\ resolverCall' =
       Some([TheValue(resolverCall) EXCEPT
               !.result =
                  Some(resolveLineItems(TheValue(resolverCall).requests,
                                        TheValue(resolverCall).currency))])
  /\ UNCHANGED <<checkoutSessions, orders, now, inflight, running, resp,
                 workerVars, totalsCall>>

NextResolver == CallResolveLineItems

SpecResolver == InitResolver /\ [][NextResolver]_vars

\* ------------------------------------------------------------------------
\* The edge-function worker (worker/src/index.js): a second implementation
\* of the checkout endpoints, with a catalog and stores of its own
\* ------------------------------------------------------------------------
workerProducts ==
  [ p \in {"ai-voice-assistant", "neural-earbuds", "smart-glasses",
           "robot-companion", "brain-band"} |->
      CASE p = "ai-voice-assistant" ->
             [id |-> p, name |-> "AI Voice Assistant", price |-> 8999,
              currency |-> "USD", in_stock |-> TRUE]
        [] p = "neural-earbuds" ->
             [id |-> p, name |-> "Neural Earbuds Pro", price |-> 14999,
              currency |-> "USD", in_stock |-> TRUE]
        [] p = "smart-glasses" ->
             [id |-> p, name |-> "AI Smart Glasses", price |-> 29999,
              currency |-> "USD", in_stock |-> TRUE]
        [] p = "robot-companion" ->
             [id |-> p, name |-> "Robot Companion", price |-> 19999,
              currency |-> "USD", in_stock |-> TRUE]
        [] p = "brain-band" ->
             [id |-> p, name |-> "Brain Band", price |-> 12999,
              currency |-> "USD", in_stock |-> FALSE] ]

workerGetProduct(id) ==
  IF id \in DOMAIN workerProducts THEN Some(workerProducts[id]) ELSE None

\* one request of the worker's resolveLineItems loop; the currency is a
\* parameter of the function that its body never reads
workerResolveOne(req, currency) ==
  LET product == workerGetProduct(req.item_id) IN
  IF ~IsSome(product)
    THEN [ok |-> FALSE, error |-> "Product not found: " \o req.item_id]
  ELSE IF ~TheValue(product).in_stock
    THEN [ok |-> FALSE,
          error |-> "Product out of stock: " \o TheValue(product).name]
  ELSE [ok |-> TRUE,
        item |-> [item_id |-> TheValue(product).id,
                  quantity |-> req.quantity,
                  unit_price |-> TheValue(product).price,
                  total_price |-> TheValue(product).price * req.quantity]]

RECURSIVE workerResolveItems(_, _)
workerResolveItems(requests, currency) ==
  IF requests = <<>> THEN <<>>
  ELSE LET r == workerResolveOne(Head(requests), currency) IN
       (IF r.ok THEN <<r.item>> ELSE <<>>)
         \o workerResolveItems(Tail(requests), currency)

RECURSIVE workerResolveErrors(_, _)
workerResolveErrors(requests, currency) ==
  IF requests = <<>> THEN <<>>
  ELSE LET r == workerResolveOne(Head(requests), currency) IN
       (IF r.ok THEN <<>> ELSE <<r.error>>)
         \o workerResolveErrors(Tail(requests), currency)

workerResolveLineItems(requests, currency) ==
  [items |-> workerResolveItems(requests, currency),
   errors |-> workerResolveErrors(requests, currency)]

workerCalculateTotals(lineItems) ==
  LET subtotal == SumTotalPrice(lineItems)
      tax == RoundTax(subtotal)
      shipping == IF subtotal >= 5000 THEN 0 ELSE 599
  IN [subtotal |-> subtotal,
      tax |-> tax,
      shipping |-> shipping,
      discount |-> 0,
      total |-> subtotal + tax + shipping]

\* the worker's messages carry no code; no errors gives undefined, <<>> here
workerErrorMessages(errors) ==
  [i \in 1..Len(errors) |-> [type |-> "error", message |-> errors[i]]]

WorkerInstruments == <<"inst-mock", "inst-card">>

SelectInstMock == [selected_instrument_id |-> "inst-mock",
                   instruments |-> None]

VoiceOnce == << LineItemRequest("ai-voice-assistant", 1) >>
EarbudsAndBrainBand == << LineItemRequest("neural-earbuds", 1),
                          LineItemRequest("brain-band", 1) >>

\* bodies of the worker's POST checkout-sessions: two without line items,
\* one without currency, one incomplete, one born ready
WorkerCreateBodies ==
  { CreateBody(None, "USD", None, Undefined),
    CreateBody(Some(<<>>), "USD", None, Undefined),
    CreateBody(Some(VoiceOnce), "", None, Undefined),
    CreateBody(Some(VoiceOnce), "USD", None, "buyer@example.com"),
    CreateBody(Some(EarbudsAndBrainBand), "USD", Some(SelectInstMock),
               "buyer@example.com") }

workerGetCheckout(id) ==
  IF id \in DOMAIN workerSessions THEN Some(workerSessions[id]) ELSE None

\* the worker's store after checkoutSessions.set(checkout.id, checkout)
workerSetCheckout(checkout) ==
  IF checkout.id \in DOMAIN workerSessions
    THEN [workerSessions EXCEPT ![checkout.id] = checkout]
    ELSE Append(workerSessions, checkout)

workerNewCheckout(body, id, t) ==
  LET currency == IF body.currency # "" THEN body.currency ELSE "USD"
      r == workerResolveLineItems(TheValue(body.line_items), currency)
      selected == IF IsSome(body.payment)
                    THEN TheValue(body.payment).selected_instrument_id
                    ELSE Undefined
  IN [id |-> id,
      status |-> IF Len(r.items) > 0 /\ selected # Undefined
                   THEN "ready_for_complete"
                   ELSE "incomplete",
      line_items |-> r.items,
      currency |-> currency,
      totals |-> workerCalculateTotals(r.items),
      payment |-> [selected_instrument_id |-> selected,
                   instruments |-> WorkerInstruments,
                   status |-> "pending"],
      buyer |-> body.buyer,
      messages |-> workerErrorMessages(r.errors),
      expires_at |-> t + 6,
      order |-> NoOrder]

handleCreateCheckout(body) ==
  IF ~IsSome(body.line_items) \/ Len(TheValue(body.line_items)) = 0
    THEN /\ workerResp' = Response("create", 0, 400,
                                   "line_items is required", None)
         /\ UNCHANGED <<workerSessions, workerOrders, workerInflight>>
    ELSE /\ Len(workerSessions) < MaxSessions
         /\ LET checkout ==
                  workerNewCheckout(body, Len(workerSessions) + 1, now)
            IN /\ workerSessions' = workerSetCheckout(checkout)
               /\ workerResp' = Response("create", checkout.id, 201, "",
                                         Some(checkout))
         /\ UNCHANGED <<workerOrders, workerInflight>>

handleGetCheckout(id) ==
  /\ workerResp' =
       IF IsSome(workerGetCheckout(id))
         THEN Response("get", id, 200, "", workerGetCheckout(id))
         ELSE Response("get", id, 404, "Checkout not found", None)
  /\ UNCHANGED <<workerSessions, workerOrders, workerInflight>>

\* bodies of the worker's PUT: the empty body and one field group each
WorkerUpdateBodies ==
  { UpdateBody(None, None, Undefined),
    UpdateBody(Some(VoiceOnce), None, Undefined),
    UpdateBody(None, Some(SelectInstMock), Undefined),
    UpdateBody(None, Some(NoPayment), Undefined),
    UpdateBody(None, None, "buyer@example.com") }

\* handleUpdateCheckout up to `await request.json()`
handleUpdateCheckoutBegin(id) ==
  IF ~IsSome(workerGetCheckout(id))
    THEN /\ workerResp' = Response("update", id, 404,
                                   "Checkout not found", None)
         /\ UNCHANGED <<workerSessions, workerOrders, workerInflight>>
    ELSE /\ workerInflight' = Append(workerInflight, Suspended("update", id))
         /\ UNCHANGED <<workerSessions, workerOrders, workerResp>>

\* the worker's session object after the body has been applied to it
workerApplyUpdate(checkout, body) ==
  LET c1 == IF IsSome(body.line_items)
              THEN LET r == workerResolveLineItems(
                              TheValue(body.line_items), checkout.currency)
                   IN [checkout EXCEPT
                         !.line_items = r.items,
                         !.totals = workerCalculateTotals(r.items)]
              ELSE checkout
      c2 == IF IsSome(body.payment)
              THEN [c1 EXCEPT
                      !.payment.selected_instrument_id =
                         TheValue(body.payment).selected_instrument_id]
              ELSE c1
      c3 == IF body.buyer # Undefined
              THEN [c2 EXCEPT !.buyer = body.buyer]
              ELSE c2
  IN IF Len(c3.line_items) > 0
        /\ c3.payment.selected_instrument_id # Undefined
       THEN [c3 EXCEPT !.status = "ready_for_complete"]
       ELSE c3

\* handleUpdateCheckout from `await request.json()` to the response
handleUpdateCheckoutResume(i, body) ==
  /\ i \in DOMAIN workerInflight
  /\ workerInflight[i].op = "update"
  /\ LET checkout ==
           workerApplyUpdate(workerSessions[workerInflight[i].sid], body)
     IN /\ workerSessions' = workerSetCheckout(checkout)
        /\ workerResp' = Response("update", checkout.id, 200, "",
                                  Some(checkout))
  /\ workerInflight' = RemoveAt(workerInflight, i)
  /\ UNCHANGED workerOrders

\* handleCompleteCheckout up to `await request.json()`
handleCompleteCheckoutBegin(id) ==
  IF ~IsSome(workerGetCheckout(id))
    THEN /\ workerResp' = Response("complete", id, 404,
                                   "Checkout not found", None)
         /\ UNCHANGED <<workerSessions, workerOrders, workerInflight>>
  ELSE IF TheValue(workerGetCheckout(id)).status # "ready_for_complete"
    THEN /\ workerResp' = Response("complete", id, 400,
                                   "Checkout not ready", None)
         /\ UNCHANGED <<workerSessions, workerOrders, workerInflight>>
  ELSE /\ workerInflight' =
            Append(workerInflight, Suspended("complete", id))
       /\ UNCHANGED <<workerSessions, workerOrders, workerResp>>

workerNewOrder(id, checkout_id, t) ==
  [id |-> id, checkout_id |-> checkout_id, status |-> "pending",
   created_at |-> t]

\* Mutant: the declined payment is written to a copy of the session
workerDeclinedCheckoutOnCopy(checkout) == checkout

\* the stored session object after a declined payment
workerDeclinedCheckout(checkout) ==
  [checkout EXCEPT !.payment.status = "failed"]

\* handleCompleteCheckout from `await request.json()` to the response; the
\* handler writes to the session object that the store holds
handleCompleteCheckoutResume(i, payment_data) ==
  /\ i \in DOMAIN workerInflight
  /\ workerInflight[i].op = "complete"
  /\ LET checkout == workerSessions[workerInflight[i].sid]
         token == IF IsSome(payment_data)
                    THEN TheValue(payment_data).token
                    ELSE Undefined
     IN IF token = FailToken
          THEN LET failed == workerDeclinedCheckout(checkout)
               IN /\ workerSessions' = workerSetCheckout(failed)
                  /\ workerResp' = Response("complete", checkout.id, 400,
                                            "", Some(failed))
                  /\ UNCHANGED workerOrders
          ELSE LET order == workerNewOrder(Len(workerOrders) + 1,
                                           checkout.id, now)
                   completed ==
                     [checkout EXCEPT
                        !.status = "completed",
                        !.payment.status = "captured",
                        !.order = [id |-> order.id,
                                   created_at |-> order.created_at]]
               IN /\ Len(workerOrders) < MaxOrders
                  /\ workerOrders' = Append(workerOrders, order)
                  /\ workerSessions' = workerSetCheckout(completed)
                  /\ workerResp' = Response("complete", checkout.id, 200,
                                            "", Some(completed))
  /\ workerInflight' = RemoveAt(workerInflight, i)

\* the worker serves one request at a time
WorkerQuiet == workerInflight = <<>>

\* every step of the worker leaves the Hono application's state alone; the
\* worker stamps the clock into expires_at and created_at and never reads
\* them back, so the clock stands still here
NextWorker ==
  \/ \E body \in WorkerCreateBodies :
       /\ WorkerQuiet /\ handleCreateCheckout(body)
       /\ UNCHANGED <<checkoutSessions, orders, now, inflight, running,
                      resp, helperVars>>
  \/ \E id \in RequestIds :
       /\ WorkerQuiet /\ handleGetCheckout(id)
       /\ UNCHANGED <<checkoutSessions, orders, now, inflight, running,
                      resp, helperVars>>
  \/ \E id \in RequestIds :
       /\ WorkerQuiet /\ handleUpdateCheckoutBegin(id)
       /\ UNCHANGED <<checkoutSessions, orders, now, inflight, running,
                      resp, helperVars>>
  \/ \E i \in DOMAIN workerInflight, body \in WorkerUpdateBodies :
       /\ handleUpdateCheckoutResume(i, body)
       /\ UNCHANGED <<checkoutSessions, orders, now, inflight, running,
                      resp, helperVars>>
  \/ \E id \in RequestIds :
       /\ WorkerQuiet /\ handleCompleteCheckoutBegin(id)
       /\ UNCHANGED <<checkoutSessions, orders, now, inflight, running,
                      resp, helperVars>>
  \/ \E i \in DOMAIN workerInflight, pd \in PaymentDatas :
       /\ handleCompleteCheckoutResume(i, pd)
       /\ UNCHANGED <<checkoutSessions, orders, now, inflight, running,
                      resp, helperVars>>

SpecWorker == Init /\ [][NextWorker]_vars

\* ------------------------------------------------------------------------
\* The two implementations side by side: every request is handed to the
\* Hono application and to the worker, each with products and instruments
\* of its own catalog, and the next request is sent when both have answered
\* ------------------------------------------------------------------------
honoVars == <<checkoutSessions, orders, now, inflight, running, resp>>

\* a Create body for each side: a currency, one resolvable request in that
\* currency; without and with a selected instrument
BothCreateBodies ==
  { << CreateBody(Some(RoseOnce), "USD", None, "buyer@example.com"),
       CreateBody(Some(VoiceOnce), "USD", None, "buyer@example.com") >>,
    << CreateBody(Some(TulipTwice), "USD", Some(SelectMock),
                  "buyer@example.com"),
       CreateBody(Some(VoiceOnce), "USD", Some(SelectInstMock),
                  "buyer@example.com") >> }

\* an Update body for each side: empty, a resolvable request, an instrument
\* selected, the selection withdrawn, a buyer
BothUpdateBodies ==
  { << UpdateBody(None, None, Undefined),
       UpdateBody(None, None, Undefined) >>,
    << UpdateBody(Some(RoseOnce), None, Undefined),
       UpdateBody(Some(VoiceOnce), None, Undefined) >>,
    << UpdateBody(None, Some(SelectMock), Undefined),
       UpdateBody(None, Some(SelectInstMock), Undefined) >>,
    << UpdateBody(None, Some(NoPayment), Undefined),
       UpdateBody(None, Some(NoPayment), Undefined) >>,
    << UpdateBody(None, None, "other@example.com"),
       UpdateBody(None, None, "other@example.com") >> }

BothAtRest == Quiet /\ WorkerQuiet /\ Idle

\* one session is created on each side, under the same id
BothCreate(bodies) ==
  /\ BothAtRest
  /\ checkoutSessions = <<>> /\ workerSessions = <<>>
  /\ Create(bodies[1])
  /\ handleCreateCheckout(bodies[2])

BothUpdateBegin(id) ==
  /\ BothAtRest
  /\ UpdateBegin(id)
  /\ handleUpdateCheckoutBegin(id)

\* the body arrives on each side that is waiting for it; a side that has
\* answered already stays as it is
BothUpdateResume(bodies) ==
  /\ inflight # <<>> \/ workerInflight # <<>>
  /\ IF inflight # <<>>
       THEN UpdateResume(1, bodies[1])
       ELSE UNCHANGED honoVars
  /\ IF workerInflight # <<>>
       THEN handleUpdateCheckoutResume(1, bodies[2])
       ELSE UNCHANGED workerVars

BothCompleteBegin(id) ==
  /\ BothAtRest
  /\ CompleteBegin(id)
  /\ handleCompleteCheckoutBegin(id)

BothCompleteResume(payment_data) ==
  /\ inflight # <<>> \/ workerInflight # <<>>
  /\ IF inflight # <<>>
       THEN CompleteResume(1, payment_data)
       ELSE UNCHANGED honoVars
  /\ IF workerInflight # <<>>
       THEN handleCompleteCheckoutResume(1, payment_data)
       ELSE UNCHANGED workerVars

\* the Hono handler runs on from its first save to its response
HonoSettle == CompleteSettle /\ UNCHANGED workerVars

NextBoth ==
  \/ \E bodies \in BothCreateBodies :
       BothCreate(bodies) /\ UNCHANGED helperVars
  \/ \E id \in RequestIds : BothUpdateBegin(id) /\ UNCHANGED helperVars
  \/ \E bodies \in BothUpdateBodies :
       BothUpdateResume(bodies) /\ UNCHANGED helperVars
  \/ \E id \in RequestIds : BothCompleteBegin(id) /\ UNCHANGED helperVars
  \/ \E pd \in PaymentDatas :
       BothCompleteResume(pd) /\ UNCHANGED helperVars
  \/ HonoSettle /\ UNCHANGED helperVars

SpecBoth == Init /\ [][NextBoth]_vars

\* ------------------------------------------------------------------------
\* calculateTotals called on its own, twice by each implementation, over
\* the empty list, every one-item list with a total_price of at most
\* MaxTotalPrice, two two-item lists, and 120 orchid plants
\* ------------------------------------------------------------------------
PricedItem(id, quantity, unit_price) ==
  [item_id |-> id, quantity |-> quantity, unit_price |-> unit_price,
   total_price |-> unit_price * quantity]

TotalsLineItems ==
  { <<>> }
    \cup { << PricedItem("item", 1, p) >> : p \in 0..MaxTotalPrice }
    \cup { << PricedItem("sunflower-bunch", 1, 2499),
              PricedItem("sunflower-bunch", 1, 2499) >>,
           << PricedItem("sunflower-bunch", 1, 2499),
              PricedItem("item", 1, 2501) >>,
           << PricedItem("orchid-plant", 120, 5999) >> }

InitTotals ==
  /\ checkoutSessions = <<>>
  /\ orders = <<>>
  /\ now = 0
  /\ inflight = <<>>
  /\ running = None
  /\ resp = NoResponse
  /\ workerSessions = <<>>
  /\ workerOrders = <<>>
  /\ workerInflight = <<>>
  /\ workerResp = NoResponse
  /\ resolverCall = None
  /\ totalsCall \in
       { Some([lineItems |-> lineItems, results |-> <<>>,
               workerResults |-> <<>>]) :
           lineItems \in TotalsLineItems }

\* the Hono application's calculateTotals, called once more
CallCalculateTotals ==
  /\ IsSome(totalsCall)
  /\ Len(TheValue(totalsCall).results) < 2
  /\ totalsCall' =
       Some([TheValue(totalsCall) EXCEPT
               !.results =
                  Append(@, calculateTotals(TheValue(totalsCall).lineItems))])
  /\ UNCHANGED <<checkoutSessions, orders, now, inflight, running, resp,
                 workerVars, resolverCall>>

\* the worker's calculateTotals, called once more
CallWorkerCalculateTotals ==
  /\ IsSome(totalsCall)
  /\ Len(TheValue(totalsCall).workerResults) < 2
  /\ totalsCall' =
       Some([TheValue(totalsCall) EXCEPT
               !.workerResults =
                  Append(@, workerCalculateTotals(
                              TheValue(totalsCall).lineItems))])
  /\ UNCHANGED <<checkoutSessions, orders, now, inflight, running, resp,
                 workerVars, resolverCall>>

NextTotals ==
  \/ CallCalculateTotals
  \/ CallWorkerCalculateTotals

SpecTotals == InitTotals /\ [][NextTotals]_vars

\* ------------------------------------------------------------------------
\* Properties
\* ------------------------------------------------------------------------
Terminal(status) == status \in {"completed", "canceled"}

OrdersOf(id) == {n \in DOMAIN orders : orders[n].checkout_id = id}

HasMessage(checkout, code) ==
  \E k \in DOMAIN checkout.messages : checkout.messages[k].code = code

CountMessages(checkout, code) ==
  Cardinality({k \in DOMAIN checkout.messages :
                 checkout.messages[k].code = code})

\* C1: once a stored session has status completed or canceled, no request
\* (served one at a time, the clock advancing in between) changes its status.
C1_TerminalStatusNeverChanges ==
  [][\A id \in DOMAIN checkoutSessions :
       Terminal(checkoutSessions[id].status)
         => checkoutSessions'[id].status = checkoutSessions[id].status]_vars

\* C2: the order store never holds two Orders with the same checkout_id.
C2_AtMostOneOrderPerCheckout ==
  \A n, m \in DOMAIN orders :
    orders[n].checkout_id = orders[m].checkout_id => n = m

C2_Witness ==
  /\ resp.op = "complete" /\ resp.code = 200
  /\ Cardinality(OrdersOf(resp.sid)) = 1

\* C3: Complete on a stored session that is not ready_for_complete answers
\* 400, creates no Order and leaves the stored session as it was; on a
\* completed session the error is "Checkout already completed".
C3_CompleteNotReadyRejected ==
  [][\A id \in DOMAIN checkoutSessions :
       ( /\ checkoutSessions[id].status # "ready_for_complete"
         /\ Quiet
         /\ CompleteBegin(id) )
       => /\ resp'.op = "complete" /\ resp'.sid = id /\ resp'.code = 400
          /\ orders' = orders
          /\ checkoutSessions' = checkoutSessions
          /\ inflight' = inflight /\ running' = running
          /\ checkoutSessions[id].status = "completed"
               => resp'.error = "Checkout already completed"]_vars

C3_Witness ==
  /\ resp.op = "complete" /\ resp.code = 400
  /\ resp.error = "Checkout already completed"
  /\ resp.sid \in DOMAIN checkoutSessions
  /\ checkoutSessions[resp.sid].status = "completed"
  /\ Cardinality(OrdersOf(resp.sid)) = 1

\* C4: Update on a completed or canceled session is rejected with an error
\* and leaves every field of the stored session as it was.
C4_UpdateTerminalRejected ==
  [][\A id \in DOMAIN checkoutSessions :
       ( /\ Terminal(checkoutSessions[id].status)
         /\ Quiet
         /\ UpdateBegin(id) )
       => /\ resp'.op = "update" /\ resp'.sid = id /\ resp'.code = 400
          /\ resp'.error # ""
          /\ checkoutSessions' = checkoutSessions
          /\ orders' = orders
          /\ inflight' = inflight /\ running' = running]_vars

C4_Witness ==
  /\ resp.op = "update" /\ resp.code = 400
  /\ resp.sid \in DOMAIN checkoutSessions
  /\ Terminal(checkoutSessions[resp.sid].status)

\* C5: Complete with a handler_id and the token fail_token on a
\* ready_for_complete session creates no Order and ends with a 400 response,
\* the stored session ready_for_complete with payment.status failed and a
\* PAYMENT_FAILED message.
C5_DeclinedPaymentReverts ==
  [][ /\ \A i \in DOMAIN inflight, pd \in PaymentDatas :
           ( /\ IsSome(pd)
             /\ TheValue(pd).handler_id # Undefined
             /\ TheValue(pd).token = FailToken
             /\ checkoutSessions[inflight[i].sid].status
                  = "ready_for_complete"
             /\ CompleteResume(i, pd) )
           => /\ orders' = orders
              /\ running' = Some([sid |-> inflight[i].sid,
                                  token |-> FailToken])
      /\ ( /\ IsSome(running)
           /\ TheValue(running).token = FailToken
           /\ CompleteSettle )
         => LET id == TheValue(running).sid IN
            /\ orders' = orders
            /\ resp'.op = "complete" /\ resp'.sid = id /\ resp'.code = 400
            /\ checkoutSessions'[id].status = "ready_for_complete"
            /\ checkoutSessions'[id].payment.status = "failed"
            /\ HasMessage(checkoutSessions'[id], "PAYMENT_FAILED")
            /\ running' = None ]_vars

C5_Witness ==
  /\ resp.op = "complete" /\ resp.code = 400
  /\ IsSome(resp.checkout)
  /\ checkoutSessions[resp.sid].status = "ready_for_complete"
  /\ checkoutSessions[resp.sid].payment.status = "failed"
  /\ OrdersOf(resp.sid) = {}

\* C6: Complete with a handler_id and a token other than fail_token on a
\* ready_for_complete session stores exactly one new Order, whose
\* checkout_id is the session id and whose line_items, totals and buyer are
\* the session's, and leaves the session completed, its payment captured and
\* its order reference naming that Order.
C6_SuccessfulCompleteStoresOrder ==
  [][ /\ \A i \in DOMAIN inflight, pd \in PaymentDatas :
           ( /\ IsSome(pd)
             /\ TheValue(pd).handler_id # Undefined
             /\ TheValue(pd).token # FailToken
             /\ checkoutSessions[inflight[i].sid].status
                  = "ready_for_complete"
             /\ CompleteResume(i, pd) )
           => /\ orders' = orders
              /\ running' = Some([sid |-> inflight[i].sid,
                                  token |-> TheValue(pd).token])
              /\ \A f \in {"line_items", "totals", "buyer"} :
                   checkoutSessions'[inflight[i].sid][f]
                     = checkoutSessions[inflight[i].sid][f]
      /\ ( /\ IsSome(running)
           /\ TheValue(running).token # FailToken
           /\ CompleteSettle )
         => LET id == TheValue(running).sid
                n == Len(orders) + 1
            IN /\ DOMAIN orders' = 1..n
               /\ \A k \in DOMAIN orders : orders'[k] = orders[k]
               /\ orders'[n].checkout_id = id
               /\ orders'[n].line_items = checkoutSessions[id].line_items
               /\ orders'[n].totals = checkoutSessions[id].totals
               /\ orders'[n].buyer = checkoutSessions[id].buyer
               /\ \A k \in DOMAIN orders : orders[k].id # orders'[n].id
               /\ checkoutSessions'[id].status = "completed"
               /\ checkoutSessions'[id].payment.status = "captured"
               /\ checkoutSessions'[id].order.id = orders'[n].id
               /\ resp'.op = "complete" /\ resp'.sid = id
               /\ resp'.code = 200 ]_vars

C6_Witness ==
  /\ resp.op = "complete" /\ resp.code = 200
  /\ \E n \in DOMAIN orders :
       /\ orders[n].checkout_id = resp.sid
       /\ orders[n].buyer # Undefined
       /\ orders[n].line_items # <<>>
       /\ checkoutSessions[resp.sid].order.id = orders[n].id

C8_MissingHandlerIdRejected ==
  [][\A i \in DOMAIN inflight, pd \in PaymentDatas :
       ( /\ (~IsSome(pd) \/ TheValue(pd).handler_id = Undefined)
         /\ checkoutSessions[inflight[i].sid].status = "ready_for_complete"
         /\ CompleteResume(i, pd) )
       => /\ checkoutSessions' = checkoutSessions
          /\ orders' = orders
          /\ running' = None
          /\ resp'.op = "complete" /\ resp'.sid = inflight[i].sid
          /\ resp'.code = 400
          /\ resp'.error = "payment_data.handler_id is required"]_vars

C8_Witness ==
  /\ resp.op = "complete"
  /\ resp.error = "payment_data.handler_id is required"
  /\ checkoutSessions[resp.sid].status = "ready_for_complete"
  /\ inflight = <<>>

\* C9: Get on a session whose expires_at is in the past cancels it, adding
\* an EXPIRED message, only when its status is not terminal; on a completed
\* or canceled session it returns the session with the store as it was.
C9_LazyExpirySparesTerminal ==
  [][\A id \in DOMAIN checkoutSessions :
       ( /\ checkoutSessions[id].expires_at < now
         /\ Quiet
         /\ Get(id) )
       => IF Terminal(checkoutSessions[id].status)
            THEN /\ checkoutSessions' = checkoutSessions
                 /\ resp'.checkout = Some(checkoutSessions[id])
            ELSE /\ checkoutSessions'[id].status = "canceled"
                 /\ checkoutSessions'[id].messages
                      = Append(checkoutSessions[id].messages, ExpiredMessage)
                 /\ resp'.checkout = Some(checkoutSessions'[id])]_vars

\* C10: once a Get has canceled an expired session, a further Get returns
\* the same canceled session and the stored messages keep exactly one
\* EXPIRED entry.
C10_LazyExpiryIdempotent ==
  [][\A id \in DOMAIN checkoutSessions :
       ( /\ checkoutSessions[id].status = "canceled"
         /\ CountMessages(checkoutSessions[id], "EXPIRED") = 1
         /\ Quiet
         /\ Get(id) )
       => /\ checkoutSessions' = checkoutSessions
          /\ CountMessages(checkoutSessions'[id], "EXPIRED") = 1
          /\ resp'.checkout = Some(checkoutSessions[id])]_vars

\* C11: Cancel on a completed session fails with an invalid-state error and
\* leaves the session (status, order reference, messages) and the order
\* store unchanged.
C11_CancelCompletedRejected ==
  [][\A id \in DOMAIN checkoutSessions :
       ( /\ checkoutSessions[id].status = "completed"
         /\ Quiet
         /\ Cancel(id) )
       => /\ resp'.op = "cancel" /\ resp'.sid = id /\ resp'.code = 400
          /\ resp'.error # ""
          /\ checkoutSessions' = checkoutSessions
          /\ orders' = orders]_vars

C11_Witness ==
  /\ resp.op = "cancel" /\ resp.code = 400
  /\ resp.sid \in DOMAIN checkoutSessions
  /\ checkoutSessions[resp.sid].status = "completed"
  /\ checkoutSessions[resp.sid].order # NoOrder

C13_CancelFrame ==
  [][\A id \in DOMAIN checkoutSessions :
       ( /\ ~Terminal(checkoutSessions[id].status)
         /\ Quiet
         /\ Cancel(id) )
       => /\ id \in DOMAIN checkoutSessions'
          /\ checkoutSessions'[id].status = "canceled"
          /\ checkoutSessions'[id].messages =
               Append(checkoutSessions[id].messages, CanceledMessage)
          /\ CanceledMessage.type = "info"
          /\ CanceledMessage.code = "CANCELED"
          /\ checkoutSessions'[id].line_items = checkoutSessions[id].line_items
          /\ checkoutSessions'[id].totals = checkoutSessions[id].totals
          /\ checkoutSessions'[id].payment = checkoutSessions[id].payment
          /\ checkoutSessions'[id].buyer = checkoutSessions[id].buyer
          /\ resp'.op = "cancel" /\ resp'.code = 200
          /\ resp'.checkout = Some(checkoutSessions'[id])]_vars

C13_Witness ==
  /\ resp.op = "cancel" /\ resp.code = 200
  /\ resp.sid \in DOMAIN checkoutSessions
  /\ checkoutSessions[resp.sid].status = "canceled"
  /\ checkoutSessions[resp.sid].messages =
       <<PaymentFailedMessage, CanceledMessage>>
  /\ checkoutSessions[resp.sid].payment.status = "failed"

RemovesSelection(body) ==
  /\ IsSome(body.payment)
  /\ TheValue(body.payment).selected_instrument_id = Undefined

\* an Update body whose line_items resolve to no item
ResolvesToNoItems(body, currency) ==
  /\ IsSome(body.line_items)
  /\ resolveLineItems(TheValue(body.line_items), currency).items = <<>>

\* C15: an Update on a ready_for_complete session whose body carries a
\* payment object without selected_instrument_id, or line_items that resolve
\* to no items, returns the session to status incomplete.
C15_UpdateReturnsToIncomplete ==
  [][\A i \in DOMAIN inflight, body \in UpdateBodiesWide :
       LET sid == inflight[i].sid IN
       ( /\ inflight[i].op = "update"
         /\ checkoutSessions[sid].status = "ready_for_complete"
         /\ \/ RemovesSelection(body)
            \/ ResolvesToNoItems(body, checkoutSessions[sid].currency)
         /\ UpdateResume(i, body) )
       => /\ checkoutSessions'[sid].status = "incomplete"
          /\ resp'.op = "update" /\ resp'.code = 200
          /\ resp'.checkout = Some(checkoutSessions'[sid])]_vars

\* a session born ready with a card selected that an Update left without
\* items, the out-of-stock request having failed to resolve
C15_Witness ==
  /\ resp.op = "update" /\ resp.code = 200
  /\ resp.sid \in DOMAIN checkoutSessions
  /\ LET checkout == checkoutSessions[resp.sid] IN
       /\ checkout.status = "incomplete"
       /\ checkout.payment.selected_instrument_id = "card-instrument-1"
       /\ checkout.line_items = <<>>
       /\ HasMessage(checkout, "ITEM_ERROR")

\* C16: Update's payment merge is field-level: a resumed Update whose
\* payment supplies only instruments leaves the stored
\* selected_instrument_id and the status unchanged, and one whose payment
\* supplies only selected_instrument_id leaves the stored instruments
\* unchanged.
C16_PaymentMergeFieldLevel ==
  [][\A i \in DOMAIN inflight, body \in UpdateBodiesWide :
       LET sid == inflight[i].sid IN
       ( /\ inflight[i].op = "update"
         /\ IsSome(body.payment)
         /\ UpdateResume(i, body) )
       => LET request == TheValue(body.payment)
              before == checkoutSessions[sid]
              after == checkoutSessions'[sid]
          IN /\ ( /\ IsSome(request.instruments)
                  /\ request.selected_instrument_id = Undefined )
                  => /\ after.payment.selected_instrument_id =
                          before.payment.selected_instrument_id
                     /\ after.status = before.status
             /\ ( /\ ~IsSome(request.instruments)
                  /\ request.selected_instrument_id # Undefined )
                  => after.payment.instruments =
                       before.payment.instruments]_vars

\* C17: a successful Update leaves every field group it does not supply
\* untouched (line_items and totals without line_items in the body, the
\* payment object without payment, buyer without buyer) and never changes
\* id, currency or payment.status.
C17_UpdateFrame ==
  [][\A i \in DOMAIN inflight, body \in UpdateBodiesWide :
       LET sid == inflight[i].sid IN
       ( /\ inflight[i].op = "update"
         /\ UpdateResume(i, body) )
       => LET before == checkoutSessions[sid]
              after == checkoutSessions'[sid]
          IN /\ resp'.op = "update" /\ resp'.code = 200
             /\ resp'.checkout = Some(after)
             /\ ~IsSome(body.line_items)
                  => /\ after.line_items = before.line_items
                     /\ after.totals = before.totals
             /\ ~IsSome(body.payment) => after.payment = before.payment
             /\ body.buyer = Undefined => after.buyer = before.buyer
             /\ after.id = before.id
             /\ after.currency = before.currency
             /\ after.payment.status = before.payment.status]_vars

\* an Update that supplied a payment to a session whose payment had been
\* declined, and left the failed payment status, the items and the buyer
C17_Witness ==
  /\ resp.op = "update" /\ resp.code = 200
  /\ resp.sid \in DOMAIN checkoutSessions
  /\ LET checkout == checkoutSessions[resp.sid] IN
       /\ checkout.payment.status = "failed"
       /\ checkout.payment.selected_instrument_id = Undefined
       /\ checkout.payment.instruments = CardInstruments
       /\ Len(checkout.line_items) > 0
       /\ checkout.buyer = "buyer@example.com"

\* C18: every successful Update sets expires_at to the time of the update
\* plus the time to live of 6 hours, whatever its body supplies; no other
\* step (a rejected Update, Get, Complete, Cancel) moves the expires_at of
\* a stored session.
C18_OnlyUpdateRenewsExpiry ==
  [][/\ \A i \in DOMAIN inflight, body \in UpdateBodies :
          ( /\ inflight[i].op = "update"
            /\ UpdateResume(i, body) )
          => /\ resp'.op = "update" /\ resp'.code = 200
             /\ checkoutSessions'[inflight[i].sid].expires_at = now + 6
     /\ \A id \in DOMAIN checkoutSessions :
          checkoutSessions'[id].expires_at # checkoutSessions[id].expires_at
            => \E i \in DOMAIN inflight, body \in UpdateBodies :
                 /\ inflight[i].op = "update"
                 /\ inflight[i].sid = id
                 /\ UpdateResume(i, body)]_vars

\* an Update seven hours after the Create has moved expires_at
C18_Witness ==
  /\ resp.op = "update" /\ resp.code = 200
  /\ resp.sid \in DOMAIN checkoutSessions
  /\ now = CHECKOUT_TTL_HOURS + 1
  /\ checkoutSessions[resp.sid].expires_at = now + 6

\* a Create body with an empty or absent line_items list, or no currency
MissingRequired(body) ==
  \/ ~IsSome(body.line_items)
  \/ Len(TheValue(body.line_items)) = 0
  \/ body.currency = ""

\* C19: in the worker as in the Hono application, a Create whose body has
\* an empty or absent line_items list, or no currency, answers 400 and adds
\* no session to the store.
C19_CreateValidation ==
  [][/\ \A body \in WorkerCreateBodies :
          ( /\ MissingRequired(body)
            /\ WorkerQuiet
            /\ handleCreateCheckout(body) )
          => /\ workerResp'.op = "create" /\ workerResp'.code = 400
             /\ workerSessions' = workerSessions
     /\ \A body \in CreateBodies :
          ( /\ MissingRequired(body)
            /\ Quiet
            /\ Create(body) )
          => /\ resp'.op = "create" /\ resp'.code = 400
             /\ checkoutSessions' = checkoutSessions]_vars

\* C19, the Hono application alone: a Create whose body has an empty or
\* absent line_items list, or no currency, answers 400 and adds no session.
C19_HonoCreateValidation ==
  [][\A body \in CreateBodies :
       ( /\ MissingRequired(body)
         /\ Quiet
         /\ Create(body) )
       => /\ resp'.op = "create" /\ resp'.code = 400
          /\ resp'.error # ""
          /\ checkoutSessions' = checkoutSessions]_vars

\* a request that the catalog can serve in the given currency
Resolvable(req, currency) ==
  /\ req.item_id \in DOMAIN products
  /\ products[req.item_id].in_stock
  /\ products[req.item_id].currency = currency

\* the line item that a resolvable request stands for
ItemOf(req) ==
  [item_id |-> req.item_id,
   quantity |-> req.quantity,
   unit_price |-> products[req.item_id].price,
   total_price |-> products[req.item_id].price * req.quantity]

\* C20: a Create whose body passes validation creates and stores a session
\* even when requests fail to resolve: line_items holds exactly the
\* resolvable requests' items, in order; messages holds exactly one error
\* ITEM_ERROR entry per failed request, so none when every request
\* resolves; status is computed from the remaining items and the payment
\* selection.
C20_CreateWithFailingRequests ==
  [][\A body \in CreateBodiesWide :
       ( /\ ~MissingRequired(body)
         /\ Quiet
         /\ Create(body) )
       => LET requests == TheValue(body.line_items)
              Ok(req) == Resolvable(req, body.currency)
              resolved == SelectSeq(requests, Ok)
              after == checkoutSessions'[Len(checkoutSessions) + 1]
              selected == /\ IsSome(body.payment)
                          /\ TheValue(body.payment).selected_instrument_id
                               # Undefined
          IN /\ Len(checkoutSessions') = Len(checkoutSessions) + 1
             /\ resp'.op = "create" /\ resp'.code = 201
             /\ resp'.checkout = Some(after)
             /\ after.line_items =
                  [k \in 1..Len(resolved) |-> ItemOf(resolved[k])]
             /\ Len(after.messages) = Len(requests) - Len(resolved)
             /\ \A k \in DOMAIN after.messages :
                  /\ after.messages[k].type = "error"
                  /\ after.messages[k].code = "ITEM_ERROR"
             /\ (Len(resolved) = Len(requests) => after.messages = <<>>)
             /\ after.status =
                  IF Len(resolved) > 0 /\ selected
                    THEN "ready_for_complete"
                    ELSE "incomplete"]_vars

\* three requests of which the unknown and the out-of-stock one failed: the
\* session is born ready with the one remaining item and two messages
C20_Witness ==
  /\ resp.op = "create" /\ resp.code = 201
  /\ resp.sid \in DOMAIN checkoutSessions
  /\ LET checkout == checkoutSessions[resp.sid] IN
       /\ Len(checkout.line_items) = 1
       /\ checkout.line_items[1].item_id = "tulip-arrangement"
       /\ Len(checkout.messages) = 2
       /\ CountMessages(checkout, "ITEM_ERROR") = 2
       /\ checkout.status = "ready_for_complete"

\* the one error of a request that does not resolve: unknown product first,
\* then out of stock, then currency mismatch
ErrorOf(req, currency) ==
  IF req.item_id \notin DOMAIN products
    THEN "Product not found: " \o req.item_id
  ELSE IF ~products[req.item_id].in_stock
    THEN "Product out of stock: " \o products[req.item_id].name
  ELSE "Currency mismatch for " \o products[req.item_id].name
       \o ": expected " \o currency
       \o ", got " \o products[req.item_id].currency

\* C21: resolveLineItems yields one outcome per request, each request on
\* its own: the items are those of the resolvable requests in request
\* order, the errors are one per other request in request order, each
\* chosen in the order unknown product, out of stock, currency mismatch, and
\* items and errors together are as many as the requests.
C21_ResolverOneOutcomePerRequest ==
  ( IsSome(resolverCall) /\ IsSome(TheValue(resolverCall).result) )
    => LET call == TheValue(resolverCall)
           result == TheValue(call.result)
           Ok(req) == Resolvable(req, call.currency)
           Failed(req) == ~Resolvable(req, call.currency)
           resolved == SelectSeq(call.requests, Ok)
           failed == SelectSeq(call.requests, Failed)
       IN /\ Len(result.items) + Len(result.errors) = Len(call.requests)
          /\ result.items = [k \in 1..Len(resolved) |-> ItemOf(resolved[k])]
          /\ result.errors =
               [k \in 1..Len(failed) |-> ErrorOf(failed[k], call.currency)]
          /\ \A k \in DOMAIN call.requests :
               LET alone == resolveLineItems(<<call.requests[k]>>,
                                             call.currency)
               IN Len(alone.items) + Len(alone.errors) = 1

\* an out-of-stock product asked for in a foreign currency, ahead of an
\* unknown one: two errors in request order, the first about the stock
C21_Witness ==
  /\ IsSome(resolverCall) /\ IsSome(TheValue(resolverCall).result)
  /\ LET call == TheValue(resolverCall)
         result == TheValue(call.result)
     IN /\ Len(call.requests) = 2
        /\ call.requests[1].item_id = "mixed-wildflowers"
        /\ call.requests[2].item_id = "unknown-flower"
        /\ call.currency = "EUR"
        /\ result.items = <<>>
        /\ result.errors =
             << "Product out of stock: Mixed Wildflower Bouquet",
                "Product not found: unknown-flower" >>

\* C22: in every stored session, every line item has total_price =
\* unit_price * quantity and the catalog price of its product as
\* unit_price, and its product is in stock and priced in the session's
\* currency.
C22_StoredItemsMatchCatalog ==
  \A id \in DOMAIN checkoutSessions :
    \A k \in DOMAIN checkoutSessions[id].line_items :
      LET item == checkoutSessions[id].line_items[k] IN
        /\ item.item_id \in DOMAIN products
        /\ item.total_price = item.unit_price * item.quantity
        /\ item.unit_price = products[item.item_id].price
        /\ products[item.item_id].in_stock
        /\ products[item.item_id].currency = checkoutSessions[id].currency

\* an Update whose requests resolved in part has replaced two tulip
\* arrangements by one rose bouquet
C22_Witness ==
  /\ resp.op = "update" /\ resp.code = 200
  /\ resp.sid \in DOMAIN checkoutSessions
  /\ LET checkout == checkoutSessions[resp.sid] IN
       /\ Len(checkout.line_items) = 1
       /\ checkout.line_items[1].item_id = "rose-bouquet"
       /\ checkout.line_items[1].total_price = 4999
       /\ checkout.payment.instruments = CardInstruments
       /\ HasMessage(checkout, "ITEM_ERROR")

\* C23: in every stored state, a session's totals are calculateTotals of
\* its current line_items, the subtotal being the sum of their total_price.
C23_TotalsFollowLineItems ==
  \A id \in DOMAIN checkoutSessions :
    LET checkout == checkoutSessions[id] IN
      /\ checkout.totals = calculateTotals(checkout.line_items)
      /\ checkout.totals.subtotal = SumTotalPrice(checkout.line_items)

\* a session born with two tulip arrangements that an Update has turned
\* into one rose bouquet, canceled since
C23_Witness ==
  \E id \in DOMAIN checkoutSessions :
    LET checkout == checkoutSessions[id] IN
      /\ checkout.status = "canceled"
      /\ checkout.payment.selected_instrument_id = "mock-instrument-1"
      /\ Len(checkout.line_items) = 1
      /\ checkout.line_items[1].item_id = "rose-bouquet"
      /\ checkout.totals.subtotal = 4999
      /\ checkout.totals.shipping = 599

\* the Totals that the calls of either implementation have returned
ReturnedTotals ==
  IF IsSome(totalsCall)
    THEN { TheValue(totalsCall).results[k] :
             k \in DOMAIN TheValue(totalsCall).results }
         \cup { TheValue(totalsCall).workerResults[k] :
                  k \in DOMAIN TheValue(totalsCall).workerResults }
    ELSE {}

C26_TaxRoundsHalfUp ==
  IsSome(totalsCall)
    => LET call == TheValue(totalsCall)
           subtotal == SumTotalPrice(call.lineItems)
       IN \A k \in DOMAIN call.results :
            subtotal >= 0
              => call.results[k].tax = (subtotal * 875 + 5000) \div 10000

\* 120 orchid plants: 719880 * 8.75% is 62989.5, and the tax returned is
\* 62989
C26_OrchidsTaxedShort ==
  ~ ( /\ IsSome(totalsCall)
      /\ TheValue(totalsCall).lineItems =
           << PricedItem("orchid-plant", 120, 5999) >>
      /\ Len(TheValue(totalsCall).results) > 0
      /\ TheValue(totalsCall).results[1].tax = 62989 )

\* C27: an order, once stored, is never changed and never removed, whatever
\* requests follow and however they interleave: every step leaves every
\* stored order as it was.
C27_OrdersNeverChange ==
  [][\A n \in DOMAIN orders :
       n \in DOMAIN orders' /\ orders'[n] = orders[n]]_vars

\* an Update suspended before the Complete has resumed after it and
\* replaced the session's line items; the order still holds the ones bought,
\* and a second order has been stored after it
C27_Witness ==
  /\ Len(orders) >= 2
  /\ orders[1].line_items # orders[2].line_items
  /\ \E n \in DOMAIN checkoutSessions :
       /\ orders[1].checkout_id = n
       /\ checkoutSessions[n].line_items # orders[1].line_items

\* C28: after an Update that supplies line item requests, the session's
\* line_items is either the resolution of all the requests, none skipped,
\* or exactly the line_items it had before, with the resolution errors in
\* messages; never the resolution of only some of the requests.
C28_UpdateResolvesAllOrKeepsOld ==
  [][\A i \in DOMAIN inflight, body \in UpdateBodiesWide :
       IsSome(body.line_items) /\ UpdateResume(i, body)
         => LET sid == inflight[i].sid
                before == checkoutSessions[sid]
                after == checkoutSessions'[sid]
                requests == TheValue(body.line_items)
                resolved == resolveLineItems(requests, before.currency)
            IN \/ /\ resolved.errors = <<>>
                  /\ Len(resolved.items) = Len(requests)
                  /\ after.line_items = resolved.items
               \/ /\ resolved.errors # <<>>
                  /\ after.line_items = before.line_items
                  /\ after.messages = ItemErrorMessages(resolved.errors)]_vars

\* C29: Complete is atomic per session: when two Completes of one
\* ready_for_complete session interleave, the second passing the status
\* guard while the first awaits its body, exactly one order is created and
\* the session ends completed with a reference to that order. So no session
\* ever has two orders, and a completed session refers to its only order.
C29_InterleavedCompletesOneOrder ==
  \A id \in DOMAIN checkoutSessions :
    /\ Cardinality(OrdersOf(id)) <= 1
    /\ checkoutSessions[id].status = "completed"
         => OrdersOf(id) = { checkoutSessions[id].order.id }

\* C30: Update is atomic per session: when a Cancel or a successful
\* Complete of the session has run while an Update that passed its
\* terminal-status guard awaited its body, the resumed Update does not move
\* the canceled or completed session back to incomplete or
\* ready_for_complete.
C30_ResumedUpdateKeepsTerminal ==
  [][\A i \in DOMAIN inflight, body \in UpdateBodiesFew :
       /\ UpdateResume(i, body)
       /\ checkoutSessions[inflight[i].sid].status \in {"canceled", "completed"}
       => checkoutSessions'[inflight[i].sid].status
            \notin {"incomplete", "ready_for_complete"}]_vars

\* C31: the worker and the Hono application encode the same state machine:
\* for every sequence of Create, Update and Complete requests with a
\* currency and resolvable items, run against both, the session status
\* after each request is the same in both.
C31_SameStatusOnBothSides ==
  BothAtRest
    => /\ DOMAIN checkoutSessions = DOMAIN workerSessions
       /\ \A id \in DOMAIN checkoutSessions :
            checkoutSessions[id].status = workerSessions[id].status

\* C32: in the Hono application, in every stored state a session carries an
\* order reference exactly when its status is completed, and the reference
\* names a stored order whose checkout_id is the session's id.
C32_OrderReferenceIffCompleted ==
  \A id \in DOMAIN checkoutSessions :
    LET checkout == checkoutSessions[id] IN
      /\ checkout.order # NoOrder <=> checkout.status = "completed"
      /\ checkout.order # NoOrder
           => /\ checkout.order.id \in DOMAIN orders
              /\ orders[checkout.order.id].checkout_id = id

\* C33: in the worker, for every sequence of Create, Update and Complete
\* requests, a session that has reached completed never leaves completed,
\* and at most one order is ever created for it.
C33_WorkerCompletedIsFinal ==
  [][\A id \in DOMAIN workerSessions :
       /\ workerSessions[id].status = "completed"
            => workerSessions'[id].status = "completed"
       /\ Cardinality({ n \in DOMAIN workerOrders' :
                          workerOrders'[n].checkout_id = id }) <= 1]_vars

\* C34: in the worker, Complete with token fail_token on a
\* ready_for_complete session creates no order, leaves the status
\* ready_for_complete and stores payment.status failed, so that the next
\* Get returns payment.status failed.
C34_WorkerDeclinedComplete ==
  [][/\ \A i \in DOMAIN workerInflight, pd \in PaymentDatas :
          /\ IsSome(pd) /\ TheValue(pd).token = FailToken
          /\ workerSessions[workerInflight[i].sid].status
               = "ready_for_complete"
          /\ handleCompleteCheckoutResume(i, pd)
          => LET sid == workerInflight[i].sid IN
               /\ workerOrders' = workerOrders
               /\ workerSessions'[sid].status = "ready_for_complete"
               /\ workerSessions'[sid].payment.status = "failed"
               /\ workerResp'.code = 400
     /\ \A id \in DOMAIN workerSessions :
          handleGetCheckout(id)
            => workerResp'.checkout = Some(workerSessions[id])]_vars

\* a declined Complete has been followed by a Get that returned
\* payment.status failed
C34_Witness ==
  /\ workerResp.op = "get"
  /\ IsSome(workerResp.checkout)
  /\ TheValue(workerResp.checkout).payment.status = "failed"
  /\ TheValue(workerResp.checkout).status = "ready_for_complete"
  /\ workerOrders = <<>>

C36_CurrencyFixedAtCreate ==
  [][/\ \A id \in DOMAIN checkoutSessions :
          checkoutSessions'[id].currency = checkoutSessions[id].currency
     /\ \A body \in CreateBodiesTwoCurrencies :
          Create(body) /\ resp'.code = 201
            => TheValue(resp'.checkout).currency = body.currency
     /\ \A i \in DOMAIN inflight, body \in UpdateBodiesWithCurrency :
          IsSome(body.line_items) /\ UpdateResume(i, body)
            => LET sid == inflight[i].sid
                   resolved == resolveLineItems(TheValue(body.line_items),
                                                checkoutSessions[sid].currency)
               IN /\ checkoutSessions'[sid].line_items = resolved.items
                  /\ resolved.errors # <<>>
                       => checkoutSessions'[sid].messages
                            = ItemErrorMessages(resolved.errors)]_vars

\* a session in EUR has been sent a rose bouquet by an Update: against EUR
\* the request fails, whatever currency the body names
C36_Witness ==
  /\ resp.op = "update"
  /\ resp.code = 200
  /\ \E id \in DOMAIN checkoutSessions :
       /\ resp.sid = id
       /\ checkoutSessions[id].currency = "EUR"
       /\ checkoutSessions[id].line_items = <<>>
       /\ checkoutSessions[id].messages
            = ItemErrorMessages(resolveErrors(RoseOnce, "EUR"))

\* C37: after an Update that supplies line item requests, every ITEM_ERROR
\* message of the stored session belongs to a request of that Update that
\* failed to resolve; when all its requests resolve, the session holds no
\* ITEM_ERROR message left from an earlier Create or Update.
C37_ItemErrorsAreOfThisUpdate ==
  [][\A i \in DOMAIN inflight, body \in UpdateBodiesWide :
       IsSome(body.line_items) /\ UpdateResume(i, body)
         => LET sid == inflight[i].sid
                after == checkoutSessions'[sid]
                resolved == resolveLineItems(TheValue(body.line_items),
                                             checkoutSessions[sid].currency)
            IN \A k \in DOMAIN after.messages :
                 after.messages[k].code = "ITEM_ERROR"
                   => \E e \in DOMAIN resolved.errors :
                        after.messages[k].message = resolved.errors[e]]_vars

\* C38: a session whose expires_at is in the past is never completed:
\* Complete on it creates no order, and Update on it does not extend its
\* life, whether or not a Get has run since it expired.
C38_ExpiredSessionStaysDead ==
  [][/\ IsSome(running)
          /\ IsExpired(checkoutSessions[TheValue(running).sid], now)
          /\ CompleteSettle
          => /\ orders' = orders
             /\ checkoutSessions'[TheValue(running).sid].status # "completed"
     /\ \A i \in DOMAIN inflight, body \in UpdateBodies :
          /\ IsExpired(checkoutSessions[inflight[i].sid], now)
          /\ UpdateResume(i, body)
          => checkoutSessions'[inflight[i].sid].expires_at
               = checkoutSessions[inflight[i].sid].expires_at]_vars

\* C39: whatever quantity a caller supplies, zero and negative integers
\* included, no stored session holds a line item whose quantity is less
\* than 1, and no stored session has a negative subtotal or total.
C39_QuantitiesArePositive ==
  \A id \in DOMAIN checkoutSessions :
    LET checkout == checkoutSessions[id] IN
      /\ \A k \in DOMAIN checkout.line_items :
           checkout.line_items[k].quantity >= 1
      /\ checkout.totals.subtotal >= 0
      /\ checkout.totals.total >= 0

\* no stored session has both a negative subtotal and a negative total
\* (violated: quantity -2 gives subtotal -9998 and total -10274)
C39_NegativeTotalStored ==
  ~ \E id \in DOMAIN checkoutSessions :
      /\ checkoutSessions[id].totals.subtotal < 0
      /\ checkoutSessions[id].totals.total < 0

====
